---- MODULE Spec2Model ----
(***************************************************************************)
(* A model of the Data-Analyst-Agent request pipeline.                     *)
(*                                                                         *)
(*   Spec        the POST handler of src/app/api/route.ts: body parsing,   *)
(*               validation, file:// references and the race between the   *)
(*               analysis pipeline and the timeout watchdog.               *)
(*   LiveSpec    Spec with the fairness the event loop gives the timer     *)
(*               and the handler's continuation.                           *)
(*   SpecLegacy  the legacy endpoint of src/pages/api/index.js:            *)
(*               makeOpenAICall with its retries, processDataAnalysisTask  *)
(*               and the chart substitution.                               *)
(*   LiveSpecCall  makeOpenAICall alone, for each maxRetries, with the      *)
(*               fairness of timers that fire and requests that settle.    *)
(*   SpecParse   TaskParser.parseTask: the assisted path through the       *)
(*               language model, validateAndEnhanceTask and the heuristic  *)
(*               fallback.                                                 *)
(*   SpecFallback  TaskParser.fallbackTaskParsing applied to task texts.   *)
(*   SpecExec    DataAnalystService.executeAnalysis: acquisition,          *)
(*               processing steps, the question loop and formatResults.    *)
(*   SpecProcess DataProcessingService.processData on every shape of       *)
(*               dataset and every pipeline of a few steps.                *)
(*                                                                         *)
(* Each specification runs one part and keeps the variables of the other   *)
(* parts at their idle values.                                             *)
(***************************************************************************)
EXTENDS Integers, Sequences, FiniteSets, TLC

VARIABLES
    \* ---- POST handler (src/app/api/route.ts) ----
    pc,               \* position of the handler
    contentType,      \* the request's content-type class
    body,             \* the parsed body, or Absent before parsing
    task,             \* validationResult.data.task (after file:// resolution)
    timeout,          \* validationResult.data.timeout
    analysisPromise,  \* dataAnalyst.analyzeTask(task)
    timeoutPromise,   \* the watchdog promise
    racePromise,      \* Promise.race([analysisPromise, timeoutPromise])
    response,         \* the NextResponse the handler returned
    nResponses,       \* how many responses the handler has returned
    analyzeCalls,     \* how many times analyzeTask was started
    hangs,            \* a collaborator call of this request never resolves
    settled           \* history: the order in which the two racers settled

routeVars == <<pc, contentType, body, task, timeout, analysisPromise,
               timeoutPromise, racePromise, response, nResponses,
               analyzeCalls, hangs, settled>>

\* ---- makeOpenAICall, processDataAnalysisTask and handler
\*      (src/pages/api/index.js) ----
VARIABLES
    lpc,            \* position of handler / processDataAnalysisTask
    method,         \* req.method
    openaiReady,    \* the OpenAI client was constructed
    hasUrl,         \* the question holds a URL
    scrapedData,    \* number of scraped items (0: null or empty)
    caller,         \* which step is inside makeOpenAICall
    callState,      \* position inside makeOpenAICall
    maxRetries,     \* makeOpenAICall's maxRetries
    attempt,        \* the loop variable of makeOpenAICall
    attemptsMade,   \* history: create() calls made by the current call
    delays,         \* history: backoff waits started by the current call
    lastError,      \* makeOpenAICall's lastError
    format,         \* the parsed format object
    result,         \* the analysis result
    chartData,      \* what generateChart returned
    failures,       \* history: calls that threw, and why
    lresponse       \* the handler's response

legacyVars == <<lpc, method, openaiReady, hasUrl, scrapedData, caller,
                callState, maxRetries, attempt, attemptsMade, delays,
                lastError, format, result, chartData, failures, lresponse>>

VARIABLES
    ppc,              \* where parseTask is: "idle", "start", "calling", "returned", "threw"
    taskDescription,  \* the argument of parseTask
    apiKey,           \* whether AIPIPE_API_KEY is configured
    parseResult,      \* what generateResponse resolved with
    plan,             \* the AnalysisTask parseTask returned
    path              \* history: which extractor made the plan's questions

parseVars == <<ppc, taskDescription, apiKey, parseResult, plan, path>>

VARIABLES
    epc,            \* where executeAnalysis is: "idle", "start", "processing",
                    \* "answering", "returned", "threw"
    analysisTask,   \* the AnalysisTask executeAnalysis was called with
    data,           \* the dataset of the acquisition stage
    processedData,  \* the dataset after the processing steps applied so far
    stepIndex,      \* how many processing steps have been applied
    qIndex,         \* how many questions the for-of loop has finished
    results,        \* the answers collected so far
    execResult,     \* the AnalysisResult executeAnalysis returned
    execError,      \* the error executeAnalysis threw
    answeredFor,    \* history: for each element of results, the index of its question
    trace,          \* history: the stage of each collaborator call, in order
    acquisitions,   \* history: the calls of the scraper and of the query engine
    delegated       \* history: the questions handed to analyzeQuestion

execVars == <<epc, analysisTask, data, processedData, stepIndex, qIndex, results,
              execResult, execError, answeredFor, trace, acquisitions, delegated>>

nonRouteVars == <<legacyVars, parseVars, execVars>>
nonLegacyVars == <<routeVars, parseVars, execVars>>
nonParseVars == <<routeVars, legacyVars, execVars>>
nonExecVars == <<routeVars, legacyVars, parseVars>>

vars == <<routeVars, legacyVars, parseVars, execVars>>

Absent == "<absent>"

(***************************************************************************)
(* POST handler                                                            *)
(***************************************************************************)

\* timeout: z.number().optional().default(180000)
DefaultTimeout == 180000

\* The timeout a test request asks for (spec: timeoutMillis = 50).
ShortTimeout == 50

ContentTypes == {"application/json", "multipart/form-data", "text/plain"}

\* Task strings a request may carry; NotAString stands for a JSON value
\* that is no string (a number, null, a missing key).
NotAString == "<not a string>"
TaskValues == {NotAString, "", "analyze", "file://task.txt", "file://missing.txt"}

\* timeout values a JSON body may carry: no key, a value that is no number,
\* or a number of milliseconds.
NoTimeout == [given |-> "absent", ms |-> 0]
TimeoutValues ==
    {NoTimeout, [given |-> "not a number", ms |-> 0]}
    \cup {[given |-> "number", ms |-> n] : n \in {ShortTimeout, DefaultTimeout}}

\* A body that is a JSON object (or was built by the handler from text).
ObjectBody(t, to) == [kind |-> "object", task |-> t, timeout |-> to]
ThrowsBody == [kind |-> "throws", task |-> NotAString, timeout |-> NoTimeout]
NotAnObjectBody == [kind |-> "not an object", task |-> NotAString, timeout |-> NoTimeout]
NoBody == [kind |-> "none", task |-> NotAString, timeout |-> NoTimeout]

\* Bodies each content type can produce (lines 22-40); "<throws>" is
\* request.json() failing or form data without task and taskText.  An
\* uploaded task file may be empty.
ParsedBodies(ct) ==
    IF ct = "application/json"
    THEN {ThrowsBody, NotAnObjectBody}
         \cup {ObjectBody(t, to) : t \in TaskValues, to \in TimeoutValues}
    ELSE IF ct = "multipart/form-data"
    THEN {ThrowsBody}
         \cup {ObjectBody(t, NoTimeout) : t \in TaskValues \ {NotAString}}
    ELSE {ObjectBody(t, NoTimeout) : t \in TaskValues \ {NotAString}}

\* A schema that asks for an object and nothing more.
AcceptsAnyObject(b) == b.kind = "object"

\* analysisRequestSchema.safeParse(body).success
SchemaAccepts(b) ==
    /\ b.kind = "object"
    /\ b.task # NotAString
    /\ b.task # ""
    /\ b.timeout.given # "not a number"

\* task.startsWith('file://')
StartsWithFile(t) == t \in {"file://task.txt", "file://missing.txt"}

\* fs.readFileSync(filePath, 'utf8'): the contents, or "<throws>".
ReadFileSync(t) == IF t = "file://task.txt" THEN "analyze" ELSE "<throws>"

\* A response: its HTTP status and its JSON body.  `fields` are the keys of
\* a failure object; `processingTime` is the number printed before "ms".
NoResponse == [status |-> 0, fields |-> {}, error |-> Absent, details |-> Absent,
               processingTime |-> 0, body |-> Absent]

\* NextResponse.json({ error }, { status })
ErrorOnly(st, err) ==
    [status |-> st, fields |-> {"error"}, error |-> err, details |-> Absent,
     processingTime |-> 0, body |-> Absent]

\* NextResponse.json({ error, details }, { status })
ErrorWithDetails(st, err, det) ==
    [status |-> st, fields |-> {"error", "details"}, error |-> err,
     details |-> det, processingTime |-> 0, body |-> Absent]

\* NextResponse.json(result.data) / NextResponse.json(result), lines 96-100
SuccessResponse(r) ==
    [status |-> 200, fields |-> {}, error |-> Absent, details |-> Absent,
     processingTime |-> 0,
     body |-> IF r.data # Absent THEN r.data ELSE "<result>"]

\* The 408 response of lines 105-111.
TimeoutResponse(t) ==
    [status |-> 408, fields |-> {"error", "processingTime"},
     error |-> "Analysis timeout - task took longer than expected",
     details |-> Absent, processingTime |-> t, body |-> Absent]

NoResult == [success |-> FALSE, data |-> Absent]
NotCreated == [state |-> "none", value |-> NoResult, message |-> Absent]
Pending == [state |-> "pending", value |-> NoResult, message |-> Absent]
Fulfilled(v) == [state |-> "fulfilled", value |-> v, message |-> Absent]
Rejected(m) == [state |-> "rejected", value |-> NoResult, message |-> m]

\* What analyzeTask can settle with: an AnalysisResult, or an error thrown
\* by a stage.
AnalysisResults == {[success |-> TRUE, data |-> d] : d \in {"answers[]", "answers{}"}}
AnalysisErrors == {"Cannot read properties of null"}

RouteInit ==
    /\ pc = "received"
    /\ contentType \in ContentTypes
    /\ body = NoBody
    /\ task = Absent
    /\ timeout = 0
    /\ analysisPromise = NotCreated
    /\ timeoutPromise = NotCreated
    /\ racePromise = NotCreated
    /\ response = NoResponse
    /\ nResponses = 0
    /\ analyzeCalls = 0
    /\ hangs \in BOOLEAN
    /\ settled = <<>>

\* return NextResponse.json(...): the handler ends with this response.
Return(r) ==
    /\ response' = r
    /\ nResponses' = nResponses + 1
    /\ pc' = "responded"

\* Lines 19-47: parse the request body.
ParseBody ==
    /\ UNCHANGED nonRouteVars
    /\ pc = "received"
    /\ \E b \in ParsedBodies(contentType) :
        IF b = ThrowsBody
        THEN /\ Return(ErrorOnly(400, "Invalid request format"))
             /\ UNCHANGED body
        ELSE /\ body' = b
             /\ pc' = "parsed"
             /\ UNCHANGED <<response, nResponses>>
    /\ UNCHANGED <<contentType, task, timeout, analysisPromise, timeoutPromise,
                   racePromise, analyzeCalls, hangs, settled>>

\* Lines 49-61: validate the body.
Validate ==
    /\ UNCHANGED nonRouteVars
    /\ pc = "parsed"
    /\ IF SchemaAccepts(body)
       THEN /\ task' = body.task
            /\ timeout' = IF body.timeout.given = "absent" THEN DefaultTimeout
                           ELSE body.timeout.ms
            /\ pc' = "validated"
            /\ UNCHANGED <<response, nResponses>>
       ELSE /\ Return(ErrorWithDetails(400, "Invalid request", "issues"))
            /\ UNCHANGED <<task, timeout>>
    /\ UNCHANGED <<contentType, body, analysisPromise, timeoutPromise,
                   racePromise, analyzeCalls, hangs, settled>>

\* Lines 63-87: resolve a file:// reference, arm the watchdog, start the
\* analysis and build the race.
StartAnalysis ==
    /\ UNCHANGED nonRouteVars
    /\ pc = "validated"
    /\ IF StartsWithFile(task) /\ ReadFileSync(task) = "<throws>"
       THEN /\ Return(ErrorOnly(400, "Could not read specified file"))
            /\ UNCHANGED <<task, analysisPromise, timeoutPromise, racePromise, analyzeCalls>>
       ELSE /\ task' = IF StartsWithFile(task) THEN ReadFileSync(task) ELSE task
            /\ timeoutPromise' = Pending
            /\ analysisPromise' = Pending
            /\ racePromise' = Pending
            /\ analyzeCalls' = analyzeCalls + 1
            /\ pc' = "awaiting"
            /\ UNCHANGED <<response, nResponses>>
    /\ UNCHANGED <<contentType, body, timeout, hangs, settled>>

\* A race that lets the last settlement win.
RaceLastWins(p) == p

\* Promise.race: the first settlement settles the race; later ones are ignored.
RaceAfter(p) == IF racePromise = Pending THEN p ELSE racePromise

\* A watchdog that rejects with another message than the catch block tests.
TimerWrongMessage == Rejected("timeout")

\* The body of the watchdog's callback (line 83).
TimerRejects == Rejected("Analysis timeout")

\* Line 83: the timer fires and rejects timeoutPromise.
TimerFire ==
    /\ UNCHANGED nonRouteVars
    /\ timeoutPromise = Pending
    /\ timeoutPromise' = TimerRejects
    /\ racePromise' = RaceAfter(timeoutPromise')
    /\ settled' = Append(settled, "timer")
    /\ UNCHANGED <<pc, contentType, body, task, timeout, analysisPromise,
                   response, nResponses, analyzeCalls, hangs>>

\* analyzeTask settles (it may do so after the handler has returned).
AnalysisSettle ==
    /\ UNCHANGED nonRouteVars
    /\ analysisPromise = Pending
    /\ ~hangs
    /\ \E p \in {Fulfilled(r) : r \in AnalysisResults}
                \cup {Rejected(m) : m \in AnalysisErrors} :
        /\ analysisPromise' = p
        /\ racePromise' = RaceAfter(p)
    /\ settled' = Append(settled, "analysis")
    /\ UNCHANGED <<pc, contentType, body, task, timeout, timeoutPromise,
                   response, nResponses, analyzeCalls, hangs>>

\* Lines 101-120: the catch block of the race.
CatchResponse(message, t) ==
    IF message = "Analysis timeout"
    THEN TimeoutResponse(t)
    ELSE ErrorWithDetails(500, "Analysis failed", message)

\* Lines 89-121: the handler resumes after `await Promise.race(...)`.
Respond ==
    /\ UNCHANGED nonRouteVars
    /\ pc = "awaiting"
    /\ racePromise # Pending
    /\ IF racePromise.state = "fulfilled"
       THEN Return(SuccessResponse(racePromise.value))
       ELSE Return(CatchResponse(racePromise.message, timeout))
    /\ UNCHANGED <<contentType, body, task, timeout, analysisPromise,
                   timeoutPromise, racePromise, analyzeCalls, hangs, settled>>

RouteNext ==
    \/ ParseBody
    \/ Validate
    \/ StartAnalysis
    \/ TimerFire
    \/ AnalysisSettle
    \/ Respond

(***************************************************************************)
(* Text                                                                    *)
(*                                                                         *)
(* A string is a sequence of tokens.  Two neighbouring tokens are          *)
(* separated by one space, except that the token NL is itself a line break *)
(* with no space around it.  A token is a word, a multi-word phrase the    *)
(* code searches for, a list number ("1."), a URL or a query.              *)
(***************************************************************************)

NL == "<nl>"

\* Longest task description, in tokens.
MaxLen == 3

\* Longest body of a numbered question, in tokens.
MaxBody == 1

\* The tokens task descriptions are built from.
Words == {"Plot", "draw", "how many", "word"}
Vocabulary == {"1.", "2.", NL} \cup Words

\* Task descriptions: every short text, and the two-item numbered lists.
Bodies == UNION {[1..n -> Words] : n \in 1..MaxBody}
NumberedTexts == {<<"1.">> \o a \o <<NL, "2.">> \o b : a \in Bodies, b \in Bodies}
Texts == UNION {[1..n -> Vocabulary] : n \in 0..MaxLen} \cup NumberedTexts

\* String.prototype.toLowerCase on one token.
Lower(tok) ==
    CASE tok = "Plot" -> "plot"
      [] tok = "Draw" -> "draw"
      [] tok = "SELECT COUNT(*) FROM t;" -> "select count(*) from t;"
      [] tok = "SELECT * FROM read_parquet('s3://x');"
           -> "select * from read_parquet('s3://x');"
      [] tok = "How many" -> "how many"
      [] tok = "How many items in [1,2,3,4,5]?" -> "how many items in [1,2,3,4,5]?"
      [] tok = "Indian high court judgement dataset"
           -> "indian high court judgement dataset"
      [] tok = "Rank" -> "rank"
      [] tok = "Peak" -> "peak"
      [] tok = "JSON array" -> "json array"
      [] tok = "JSON object" -> "json object"
      [] tok = "rowCount" -> "rowcount"
      [] tok = "Title" -> "title"
      [] tok = "Year" -> "year"
      [] tok = "Worldwide gross" -> "worldwide gross"
      [] tok = "Avatar" -> "avatar"
      [] tok = "List of highest-grossing films worldwide"
           -> "list of highest-grossing films worldwide"
      [] tok = "https://en.wikipedia.org/wiki/List_of_highest-grossing_films"
           -> "https://en.wikipedia.org/wiki/list_of_highest-grossing_films"
      [] OTHER -> tok

LowerText(text) == [i \in DOMAIN text |-> Lower(text[i])]

\* The search strings of the code that occur inside a token, beside the
\* token itself.
KeywordsIn(tok) ==
    {tok} \cup
    (CASE tok = "scatterplot" -> {"plot", "scatter"}
       [] tok = "scatter plot" -> {"plot", "scatter"}
       [] tok = "how many items in [1,2,3,4,5]?" -> {"how many"}
       [] tok = "json array" -> {"array"}
       [] tok = "json object" -> {"object"}
       [] tok = "versus" -> {"vs"}
       [] tok = "number of" -> {"number", "no"}
       [] tok = "$2 bn" -> {"$2", "2 bn"}
       [] tok = "$2 billion" -> {"$2"}
       [] tok = "select count(*) from t;" -> {"count"}
       [] tok = "$1.5 bn" -> {"1.5 bn"}
       [] tok = "indian high court judgement dataset" -> {"high court"}
       [] tok = "$2,923,706,026" -> {"$2"}
       [] tok = "rowcount" -> {"count"}
       [] tok = "list of highest-grossing films worldwide" -> {"list"}
       [] tok = "https://en.wikipedia.org/wiki/List_of_highest-grossing_films"
            -> {"List_of_highest-grossing_films"}
       [] tok = "https://en.wikipedia.org/wiki/list_of_highest-grossing_films"
            -> {"list"}
       [] OTHER -> {})

\* String.prototype.includes
Includes(text, kw) == \E i \in DOMAIN text : kw \in KeywordsIn(text[i])

IncludesAny(text, kws) == \E kw \in kws : Includes(text, kw)

\* \d+\. : a list number
IsNumberTok(tok) == tok \in {"1.", "2.", "3.", "4."}

\* /https?:\/\/[^\s]+/ on one token
IsUrlTok(tok) ==
    tok \in {"https://example.org/data",
             "https://en.wikipedia.org/wiki/List_of_highest-grossing_films"}

\* /SELECT[\s\S]*?FROM[\s\S]*?;/i on one token
IsQueryTok(tok) ==
    tok \in {"SELECT COUNT(*) FROM t;", "SELECT * FROM read_parquet('s3://x');",
             "select count(*) from t;", "select * from read_parquet('s3://x');"}

\* The tokens of `text` from index a to index b.
Slice(text, a, b) == [i \in 1..(b - a + 1) |-> text[a + i - 1]]

\* String.prototype.trim: line breaks at both ends go.
RECURSIVE Trim(_)
Trim(text) ==
    IF text = <<>> THEN text
    ELSE IF Head(text) = NL THEN Trim(Tail(text))
    ELSE IF text[Len(text)] = NL THEN Trim(Slice(text, 1, Len(text) - 1))
    ELSE text

\* The first index from k on that holds no line break (Len + 1 if none):
\* where \s+ stops.
RECURSIVE SkipNL(_, _)
SkipNL(text, k) ==
    IF k <= Len(text) /\ text[k] = NL THEN SkipNL(text, k + 1) ELSE k

\* The last and the first \w+ run of a token ("" when the token ends,
\* or starts, with another character).
LastWord(tok) ==
    CASE tok = NL \/ IsNumberTok(tok) \/ IsQueryTok(tok) -> ""
      [] tok = "how many items in [1,2,3,4,5]?" -> ""
      [] tok = "indian high court judgement dataset" -> "dataset"
      [] tok = "how many" -> "many"
      [] tok = "number of" -> "of"
      [] tok = "scatter plot" -> "plot"
      [] tok = "json array" -> "array"
      [] tok = "json object" -> "object"
      [] tok = "$2 bn" -> "bn"
      [] tok = "$1.5 bn" -> "bn"
      [] tok = "$2 billion" -> "billion"
      [] tok = "before 2020" -> "2020"
      [] tok = "https://example.org/data" -> "data"
      [] tok = "https://en.wikipedia.org/wiki/list_of_highest-grossing_films" -> "films"
      [] OTHER -> tok

FirstWord(tok) ==
    CASE tok = NL \/ tok \in {"$2 bn", "$1.5 bn", "$2 billion"} -> ""
      [] tok = "before 2020" -> "before"
      [] tok = "4." -> "4"
      [] tok = "1." -> "1"
      [] tok = "2." -> "2"
      [] tok = "3." -> "3"
      [] tok = "how many" -> "how"
      [] tok = "how many items in [1,2,3,4,5]?" -> "how"
      [] tok = "indian high court judgement dataset" -> "indian"
      [] tok = "number of" -> "number"
      [] tok = "scatter plot" -> "scatter"
      [] tok = "json array" -> "json"
      [] tok = "json object" -> "json"
      [] IsUrlTok(tok) -> "https"
      [] IsQueryTok(tok) -> "select"
      [] OTHER -> tok

Min(S) == CHOOSE x \in S : \A y \in S : x <= y
Max(S) == CHOOSE x \in S : \A y \in S : x >= y

\* The nearest index before i, and after i, that holds no line break
\* (0 when there is none): \s+ spans the line breaks between two words.
PrevTok(text, i) ==
    LET js == {j \in 1..(i - 1) : text[j] # NL} IN IF js = {} THEN 0 ELSE Max(js)
NextTok(text, i) ==
    LET js == {j \in (i + 1)..Len(text) : text[j] # NL} IN IF js = {} THEN 0 ELSE Min(js)

(***************************************************************************)
(* TaskParser (src/services/task-parser.service.ts)                        *)
(***************************************************************************)

NoVisualization ==
    [present |-> FALSE, type |-> Absent, showRegression |-> FALSE,
     regressionStyle |-> Absent, regressionColor |-> Absent,
     xAxis |-> Absent, yAxis |-> Absent]

\* An element of task.questions.  item is the JSON kind of the element;
\* str tells whether its text property is a string.
Question(txt, ty, fmt, viz) ==
    [item |-> "object", str |-> TRUE, text |-> txt, type |-> ty,
     expectedFormat |-> fmt, visualization |-> viz]

NoSource == [type |-> Absent, url |-> Absent, query |-> Absent]
NoContext == [present |-> FALSE, text |-> <<>>]
Context(txt) == [present |-> TRUE, text |-> txt]

\* A JSON value in the place of an AnalysisTask.  j is its JSON kind; qkind
\* is the JSON kind of its questions property.
Task(ty, src, steps, qs, fmt, ctx) ==
    [j |-> "object", type |-> ty, dataSource |-> src, processing |-> steps,
     qkind |-> "array", questions |-> qs, outputFormat |-> fmt, context |-> ctx]

JsonValue(kind) ==
    [j |-> kind, type |-> Absent, dataSource |-> NoSource, processing |-> <<>>,
     qkind |-> "absent", questions |-> <<>>, outputFormat |-> Absent,
     context |-> NoContext]

\* determineQuestionType
determineQuestionType(questionText) ==
    LET text == LowerText(questionText) IN
    IF IncludesAny(text, {"how many", "count", "number of"}) THEN "count"
    ELSE IF IncludesAny(text, {"correlation", "relationship"}) THEN "correlation"
    ELSE IF IncludesAny(text, {"plot", "chart", "graph", "visualization"}) THEN "visualization"
    ELSE IF IncludesAny(text, {"calculate", "compute", "average", "sum"}) THEN "calculation"
    ELSE IF IncludesAny(text, {"compare", "versus", "vs"}) THEN "comparison"
    ELSE IF IncludesAny(text, {"date", "time", "when", "earliest", "latest"}) THEN "date"
    ELSE "text"

\* determineExpectedFormat
determineExpectedFormat(questionText) ==
    LET text == LowerText(questionText) IN
    IF IncludesAny(text, {"base64", "base-64", "data:image", "visualization", "plot", "chart"})
    THEN "base64_image"
    ELSE IF IncludesAny(text, {"how many", "count", "number", "correlation"}) THEN "number"
    ELSE IF IncludesAny(text, {"list", "array"}) THEN "array"
    ELSE IF IncludesAny(text, {"true", "false", "yes", "no"}) THEN "boolean"
    ELSE "string"

\* text.match(/(\w+)\s+regression/): the captured word, Absent without a match
ColorMatch(text) ==
    LET is == {i \in DOMAIN text : /\ text[i] = "regression"
                                   /\ PrevTok(text, i) # 0
                                   /\ LastWord(text[PrevTok(text, i)]) # ""}
    IN IF is = {} THEN Absent ELSE LastWord(text[PrevTok(text, Min(is))])

\* text.match(/(\w+)\s+and\s+(\w+)/): the index of the "and", 0 without a match
AxisMatch(text) ==
    LET is == {i \in DOMAIN text : /\ text[i] = "and"
                                   /\ PrevTok(text, i) # 0
                                   /\ LastWord(text[PrevTok(text, i)]) # ""
                                   /\ NextTok(text, i) # 0
                                   /\ FirstWord(text[NextTok(text, i)]) # ""}
    IN IF is = {} THEN 0 ELSE Min(is)

\* parseVisualizationConfig
parseVisualizationConfig(questionText) ==
    LET text == LowerText(questionText)
        regression == Includes(text, "regression")
        axis == AxisMatch(text)
    IN [present |-> TRUE,
        type |-> IF IncludesAny(text, {"scatterplot", "scatter plot"}) THEN "scatter"
                 ELSE IF IncludesAny(text, {"line", "trend"}) THEN "line"
                 ELSE IF IncludesAny(text, {"bar", "column"}) THEN "bar"
                 ELSE IF Includes(text, "pie") THEN "pie"
                 ELSE IF Includes(text, "histogram") THEN "histogram"
                 ELSE "scatter",
        showRegression |-> regression,
        regressionStyle |-> IF ~regression THEN Absent
                            ELSE IF Includes(text, "dotted") THEN "dotted"
                            ELSE IF Includes(text, "dashed") THEN "dashed"
                            ELSE "solid",
        regressionColor |-> IF regression THEN ColorMatch(text) ELSE Absent,
        xAxis |-> IF axis = 0 THEN Absent ELSE LastWord(text[PrevTok(text, axis)]),
        yAxis |-> IF axis = 0 THEN Absent ELSE FirstWord(text[NextTok(text, axis)])]

\* Where the lazy group ([^]*?) of the question pattern ends when it may end
\* no earlier than index e: before a line break that a list number follows,
\* or else at the end of the text.
RECURSIVE GroupEnd(_, _)
GroupEnd(text, e) ==
    IF e >= Len(text) THEN Len(text)
    ELSE IF text[e + 1] = NL /\ e + 2 <= Len(text) /\ IsNumberTok(text[e + 2]) THEN e
    ELSE GroupEnd(text, e + 1)

\* taskDescription.match(/\d+\.\s+([^]*?)(?=\n\d+\.|$)/g), scanning from
\* index k: the matches in order (<<>> stands for null).
RECURSIVE QuestionMatches(_, _)
QuestionMatches(text, k) ==
    IF k > Len(text) THEN <<>>
    ELSE IF IsNumberTok(text[k]) /\ k < Len(text)
    THEN LET e == GroupEnd(text, SkipNL(text, k + 1) - 1)
         IN <<Slice(text, k, e)>> \o QuestionMatches(text, e + 1)
    ELSE QuestionMatches(text, k + 1)

\* q.replace(/^\d+\.\s+/, '').trim() and the question built from it
MatchedQuestion(q) ==
    LET text == Trim(Slice(q, SkipNL(q, 2), Len(q)))
    IN Question(text, determineQuestionType(text), determineExpectedFormat(text),
                NoVisualization)

\* The single question that stands for the entire description.
WholeTextQuestion(description) == Question(description, "text", "string", NoVisualization)

\* The visualization keywords of determineQuestionType and their compounds.
PlotKeywordsOnly ==
    {"plot", "chart", "graph", "scatterplot", "scatter plot", "visualization"}

\* Line 144
visualizationKeywords ==
    {"plot", "chart", "graph", "scatterplot", "scatter plot", "visualization", "draw"}

\* The forEach of fallbackTaskParsing that marks visualization questions.
ForceVisualization(question) ==
    IF IncludesAny(LowerText(question.text), visualizationKeywords)
    THEN Question(question.text, "visualization", "base64_image",
                  parseVisualizationConfig(question.text))
    ELSE question

\* A fallback that makes no question when the pattern matches nothing.
NoQuestions(description) == <<>>

\* The questions of the fallback when the pattern matches nothing.
UnnumberedQuestions(description) == <<WholeTextQuestion(description)>>

\* A determination of the output format that looks for "JSON object" first.
ObjectFirstOutputFormat(description) ==
    IF Includes(description, "JSON object") THEN "json_object"
    ELSE "json_array"

\* fallbackTaskParsing, lines 153-158, over the default of line 99.
determineOutputFormat(description) ==
    IF Includes(description, "JSON array") THEN "json_array"
    ELSE IF Includes(description, "JSON object") THEN "json_object"
    ELSE "json_array"

\* fallbackTaskParsing
fallbackTaskParsing(description) ==
    LET urls == {i \in DOMAIN description : IsUrlTok(description[i])}
        queries == {i \in DOMAIN description : IsQueryTok(description[i])}
        questionMatches == QuestionMatches(description, 1)
        questions == IF questionMatches # <<>>
                     THEN [i \in DOMAIN questionMatches |-> MatchedQuestion(questionMatches[i])]
                     ELSE UnnumberedQuestions(description)
    IN Task(IF queries # {} THEN "database_query"
            ELSE IF urls # {} THEN "web_scraping" ELSE "mixed",
            IF queries # {}
            THEN [type |-> "duckdb", url |-> Absent, query |-> description[Min(queries)]]
            ELSE IF urls # {}
            THEN [type |-> "web", url |-> description[Min(urls)], query |-> Absent]
            ELSE NoSource,
            <<>>,
            [i \in DOMAIN questions |-> ForceVisualization(questions[i])],
            determineOutputFormat(description),
            Context(description))

\* An element of task.questions that is no object: null, or a number.
NullItem ==
    [item |-> "null", str |-> FALSE, text |-> <<>>, type |-> Absent,
     expectedFormat |-> Absent, visualization |-> NoVisualization]

\* An element of task.questions that is an object without a text.
UntitledQuestion(ty) ==
    [item |-> "object", str |-> FALSE, text |-> <<>>, type |-> ty,
     expectedFormat |-> Absent, visualization |-> NoVisualization]

NoTask == JsonValue("absent")
Threw == [threw |-> TRUE, task |-> NoTask]
Returned(t) == [threw |-> FALSE, task |-> t]

\* The questions validateAndEnhanceTask supplies when the task has none.
DefaultQuestions(originalDescription) == <<WholeTextQuestion(originalDescription)>>

\* The forEach of validateAndEnhanceTask on one question.
EnhanceQuestion(question) ==
    IF question.type = "visualization" /\ ~question.visualization.present
    THEN [question EXCEPT !.visualization = parseVisualizationConfig(question.text)]
    ELSE question

\* validateAndEnhanceTask.  It throws a TypeError when the task is null or a
\* primitive, when questions has no forEach, when an element of questions is
\* null, and when a visualization question without a config has no text.
validateAndEnhanceTask(t, originalDescription) ==
    IF t.j \notin {"object", "array"} THEN Threw
    ELSE
    LET missing == \/ t.qkind \in {"absent", "null"}
                   \/ (t.qkind = "array" /\ t.questions = <<>>)
        questions == IF missing THEN DefaultQuestions(originalDescription) ELSE t.questions
    IN IF ~missing /\ t.qkind # "array" THEN Threw
       ELSE IF \E i \in DOMAIN questions :
                  \/ questions[i].item = "null"
                  \/ /\ questions[i].type = "visualization"
                     /\ ~questions[i].visualization.present
                     /\ ~questions[i].str
       THEN Threw
       ELSE Returned(
            [j |-> t.j,
             type |-> IF t.type = Absent THEN "mixed" ELSE t.type,
             dataSource |-> t.dataSource,
             processing |-> t.processing,
             qkind |-> "array",
             questions |-> [i \in DOMAIN questions |-> EnhanceQuestion(questions[i])],
             outputFormat |-> IF t.outputFormat = Absent THEN "json_array" ELSE t.outputFormat,
             context |-> IF ~t.context.present \/ t.context.text = <<>>
                         THEN Context(originalDescription) ELSE t.context])

\* What generateResponse resolves with: raw is the string (or what stands in
\* its place), doc the JSON document when raw is one.
Content(raw) == [raw |-> raw, doc |-> NoTask]
Document(doc) == [raw |-> "<document>", doc |-> doc]
\* message.content of a reply whose content is null
NullContent == Content("<null>")

\* generateMockResponse
generateMockResponse(prompt) ==
    LET promptLower == LowerText(prompt) IN
    IF IncludesAny(promptLower, {"count", "how many"})
    THEN IF IncludesAny(promptLower, {"2 bn", "$2"}) THEN Content("1") ELSE Content("5")
    ELSE IF Includes(promptLower, "correlation") THEN Content("0.485782")
    ELSE IF Includes(promptLower, "earliest") /\ Includes(promptLower, "1.5 bn")
    THEN Content("Titanic")
    ELSE IF /\ Includes(promptLower, "high court") /\ Includes(promptLower, "2019")
            /\ Includes(promptLower, "2022")
    THEN Content("Delhi High Court")
    ELSE IF Includes(promptLower, "regression slope") THEN Content("0.75")
    ELSE Content("Mock analysis result")

\* JSON.parse of what generateResponse resolved with.  ok is FALSE for a
\* SyntaxError; null content is converted to the string "null" first.
JsonParse(content) ==
    CASE content.raw = "<document>" -> [ok |-> TRUE, value |-> content.doc]
      [] content.raw = "<null>" -> [ok |-> TRUE, value |-> JsonValue("null")]
      [] content.raw \in {"1", "5", "0.485782", "0.75"} ->
            [ok |-> TRUE, value |-> JsonValue("number")]
      [] OTHER -> [ok |-> FALSE, value |-> NoTask]

\* parsePrompt: the task description inside the fixed instructions.
parsePrompt(description) ==
    <<"Analyze this data analysis task", NL, "Task:">> \o description \o
    <<NL, "count", "calculation", "correlation", "visualization", "comparison">>

\* parseTask without its outer catch: the error reaches the caller.
Rethrow(description) == [threw |-> TRUE, task |-> NoTask, path |-> "fallback"]

\* The outer catch of parseTask.
OuterCatch(description) ==
    [threw |-> FALSE, task |-> fallbackTaskParsing(description), path |-> "fallback"]

\* parseTask from the point where generateResponse has resolved with
\* content.  path tells which of the two extractors made the questions.
parseTaskWith(content, description) ==
    LET parsed == JsonParse(content)
        parsedTask == IF parsed.ok THEN parsed.value
                      ELSE fallbackTaskParsing(description)
        validated == validateAndEnhanceTask(parsedTask, description)
    IN IF validated.threw THEN OuterCatch(description)
       ELSE [threw |-> FALSE, task |-> validated.task,
             path |-> IF parsed.ok THEN "assisted" ELSE "fallback"]

\* Most questions in a reply of the language model.
MaxReplyQuestions == 2

\* Elements of the questions array of a reply.
ReplyItems ==
    {NullItem,
     UntitledQuestion("visualization"),
     Question(<<"word">>, "text", "string", NoVisualization),
     Question(<<"Plot", "word">>, "visualization", "string", NoVisualization),
     Question(<<"Plot", "word">>, "visualization", "base64_image",
              parseVisualizationConfig(<<"Plot", "word">>))}

\* A reply that is a JSON object with the given questions property.
ReplyObject(qkind, qs, fmt) ==
    [j |-> "object", type |-> Absent, dataSource |-> NoSource, processing |-> <<>>,
     qkind |-> qkind, questions |-> qs, outputFormat |-> fmt, context |-> NoContext]

\* What the language model can send as message.content: prose, null, a JSON
\* primitive or array, or a JSON object whose questions property is absent,
\* null, no array, or an array of up to MaxReplyQuestions elements.
LmContents ==
    {Content("<prose>"), NullContent}
    \cup {Document(JsonValue(k)) : k \in {"number", "string", "array"}}
    \cup {Document(ReplyObject(k, <<>>, fmt)) :
            k \in {"absent", "null", "string", "object"}, fmt \in {Absent, "json_object"}}
    \cup {Document(ReplyObject("array", qs, Absent)) :
            qs \in UNION {[1..n -> ReplyItems] : n \in 0..MaxReplyQuestions}}

NoContent == Content("<none>")

ParseInit ==
    /\ ppc = "start"
    /\ taskDescription \in Texts
    /\ apiKey \in BOOLEAN
    /\ parseResult = NoContent
    /\ plan = NoTask
    /\ path = "none"

ParseIdle ==
    /\ ppc = "idle"
    /\ taskDescription = <<>>
    /\ apiKey = FALSE
    /\ parseResult = NoContent
    /\ plan = NoTask
    /\ path = "none"

\* parseTask up to its await of generateResponse.
CallGenerateResponse ==
    /\ UNCHANGED nonParseVars
    /\ ppc = "start"
    /\ ppc' = "calling"
    /\ UNCHANGED <<taskDescription, apiKey, parseResult, plan, path>>

\* The rest of parseTask, once generateResponse has resolved with content.
FinishParse(content) ==
    LET outcome == parseTaskWith(content, taskDescription) IN
    /\ parseResult' = content
    /\ ppc' = IF outcome.threw THEN "threw" ELSE "returned"
    /\ plan' = outcome.task
    /\ path' = outcome.path
    /\ UNCHANGED <<taskDescription, apiKey>>

\* generateResponse resolves with the mock response: there is no key, the
\* fetch failed, the status was not ok, or the reply had no message.
ResolveMock ==
    /\ UNCHANGED nonParseVars
    /\ ppc = "calling"
    /\ FinishParse(generateMockResponse(parsePrompt(taskDescription)))

\* generateResponse resolves with the content of the model's reply.
ResolveContent ==
    /\ UNCHANGED nonParseVars
    /\ ppc = "calling"
    /\ apiKey
    /\ \E content \in LmContents : FinishParse(content)

ParseNext ==
    \/ CallGenerateResponse
    \/ ResolveMock
    \/ ResolveContent

\* The heuristic fallback on its own: task texts over a vocabulary with the
\* output-format phrases, a question without a list number, keywords of
\* several question types, a URL and a query.
MaxFallbackLen == 3

FallbackVocabulary ==
    {"JSON array", "JSON object", "How many items in [1,2,3,4,5]?", "word", "Plot",
     "Draw", "correlation", "earliest",
     "1.", NL, "https://example.org/data", "SELECT COUNT(*) FROM t;"}

FallbackTexts == UNION {[1..n -> FallbackVocabulary] : n \in 1..MaxFallbackLen}

FallbackInit ==
    /\ ppc = "start"
    /\ taskDescription \in FallbackTexts
    /\ apiKey = FALSE
    /\ parseResult = NoContent
    /\ plan = NoTask
    /\ path = "none"

\* One call of fallbackTaskParsing.
ApplyFallback ==
    /\ UNCHANGED nonParseVars
    /\ ppc = "start"
    /\ plan' = fallbackTaskParsing(taskDescription)
    /\ ppc' = "returned"
    /\ path' = "fallback"
    /\ UNCHANGED <<taskDescription, apiKey, parseResult>>

FallbackNext == ApplyFallback

(***************************************************************************)
(* DataAnalystService.executeAnalysis (src/unnamed/part_003)               *)
(***************************************************************************)

\* Most questions, and most processing steps, of a plan under execution.
MaxQuestions == 2
MaxSteps == 1

\* Datasets.  films tells whether tables[0] is the built-in film table;
\* rowCount is the rowCount of a query result; headers and rows are those of
\* a dataset in table format, and rows the elements of an array of objects.
NoData == [shape |-> "null", films |-> FALSE, rowCount |-> 0,
           headers |-> <<>>, rows |-> <<>>]
MockMovieData == [shape |-> "scraped", films |-> TRUE, rowCount |-> 0,
                  headers |-> <<>>, rows |-> <<>>]
ParsedPage == [shape |-> "scraped", films |-> FALSE, rowCount |-> 0,
               headers |-> <<>>, rows |-> <<>>]
QueryResult(n) == [shape |-> "query", films |-> FALSE, rowCount |-> n,
                   headers |-> <<>>, rows |-> <<>>]

\* A dataset in table format ({headers, rows}), and an array of objects.
TableData(hs, rs) == [shape |-> "table", films |-> FALSE, rowCount |-> 0,
                      headers |-> hs, rows |-> rs]
ArrayData(items) == [shape |-> "array", films |-> FALSE, rowCount |-> 0,
                     headers |-> <<>>, rows |-> items]

FilmHeaders == <<"Rank", "Peak", "Title", "Worldwide gross", "Year">>

\* The rows of getMockMovieData.  The gross is kept in units of 500 dollars
\* (rounded down), so the code's tests grossAmount >= 2000 and
\* grossAmount >= 1500 read gross >= 4 and gross >= 3 here.
FilmRows ==
    << <<1, 1, "Avatar", 5847412, 2009>>,
       <<2, 1, "Avengers: Endgame", 5595601, 2019>>,
       <<3, 1, "Avatar: The Way of Water", 4640500, 2022>>,
       <<4, 1, "Titanic", 4515689, 1997>>,
       <<5, 2, "Star Wars: The Force Awakens", 4142620, 2015>>,
       <<6, 3, "Avengers: Infinity War", 4096719, 2018>>,
       <<7, 4, "Spider-Man: No Way Home", 3843694, 2021>>,
       <<8, 5, "Jurassic World", 3344638, 2015>>,
       <<9, 6, "The Lion King", 3326150, 2019>>,
       <<10, 7, "The Avengers", 3037631, 2012>> >>

\* Array.prototype.indexOf on the headers, counted from 1 (0: not found).
IndexOf(headers, name) ==
    LET is == {i \in DOMAIN headers : headers[i] = name}
    IN IF is = {} THEN 0 ELSE Min(is)

\* WebScrapingService.scrapeData: the built-in table for the film list and
\* after any failure, else what parseHtml made of the page.  It never throws.
ScrapeResults(url) ==
    IF Includes(<<url>>, "List_of_highest-grossing_films") THEN {MockMovieData}
    ELSE {ParsedPage, MockMovieData}

\* DatabaseService.executeQuery
executeQuery(query) ==
    IF query = "SELECT COUNT(*) FROM t;" THEN QueryResult(1)
    ELSE IF query = "SELECT * FROM read_parquet('s3://x');" THEN QueryResult(3)
    ELSE QueryResult(0)

\* step.parameters of the filter steps: films released after 2000.
FilterParameters == [field |-> "Year", operator |-> "greater_than", value |-> 2000]

\* The callback of filter for greater_than: parseFloat of both sides.
FilterKeeps(cell) == cell > FilterParameters.value

\* filterData: no data and an object that is neither an array nor a table
\* come back as they are; a table without the field too.
filterData(d, step) ==
    CASE d.shape = "null" -> d
      [] d.shape = "array" ->
            ArrayData(SelectSeq(d.rows,
                LAMBDA item : FilterKeeps(item[FilterParameters.field])))
      [] d.shape = "table" ->
            LET fieldIndex == IndexOf(d.headers, FilterParameters.field)
            IN IF fieldIndex = 0 THEN d
               ELSE [d EXCEPT !.rows =
                        SelectSeq(d.rows, LAMBDA row : FilterKeeps(row[fieldIndex]))]
      [] OTHER -> d

JoinLosesData(d, step) == NoData
\* joinData: not implemented, the original data comes back.
joinData(d, step) == d

\* applyProcessingStep: the switch on step.type, with the cases filter and
\* join and the default branch.
applyProcessingStep(d, step) ==
    CASE step = "filter" -> filterData(d, step)
      [] step = "join" -> joinData(d, step)
      [] OTHER -> d

\* applyProcessingStep reads step.type first: a TypeError when step is null.
StepThrows(step) == step = "<null>"

\* executeQuery calls query.includes: a TypeError when query is no string,
\* which its catch rethrows.
QueryThrows(query) == query = NotAString

\* Whether scrapeData came to d through its catch: the fetch failed or the
\* status was not ok.
ScrapeFailed(url, d) ==
    ~Includes(<<url>>, "List_of_highest-grossing_films") /\ d = MockMovieData

\* One call of a collaborator of the acquisition stage.
Acquisition(to, arg, failed) == [to |-> to, arg |-> arg, failed |-> failed]

\* Answers.  A number is n / sqrt(radicand), or the literal s when radicand
\* is 0; a string and an image carry s.
Num(n) == [kind |-> "number", s |-> "", n |-> n, radicand |-> 1]
Ratio(n, radicand) == [kind |-> "number", s |-> "", n |-> n, radicand |-> radicand]
Literal(raw) == [kind |-> "number", s |-> raw, n |-> 0, radicand |-> 0]
Str(raw) == [kind |-> "string", s |-> raw, n |-> 0, radicand |-> 0]
\* A data URI; s is what the SVG shows, n the number of points drawn.
Image(shown, n) == [kind |-> "image", s |-> shown, n |-> n, radicand |-> 0]

\* What an await can end in.
Answered(a) == [threw |-> FALSE, answer |-> a]
TypeErrorThrown == [threw |-> TRUE, answer |-> Str("TypeError")]

\* extractDataPoints: the number of points
DataPoints(d, xAxis, yAxis) ==
    IF ~d.films THEN 0
    ELSE IF xAxis # Absent /\ IndexOf(FilmHeaders, xAxis) = 0 THEN 0
    ELSE IF yAxis # Absent /\ IndexOf(FilmHeaders, yAxis) = 0 THEN 0
    ELSE Len(FilmRows)

\* VisualizationService.createVisualization
createVisualization(d, config) ==
    LET n == DataPoints(d, config.xAxis, config.yAxis)
    IN IF n = 0 THEN Image("No data available", 0)
       ELSE Image(IF config.showRegression /\ config.type = "scatter"
                  THEN "regression" ELSE config.type, n)

\* count2BnMoviesBefore2020
count2BnMoviesBefore2020(d) ==
    IF ~d.films THEN Num(0)
    ELSE LET g == IndexOf(FilmHeaders, "Worldwide gross")
             y == IndexOf(FilmHeaders, "Year")
         IN Num(Cardinality({i \in DOMAIN FilmRows :
                                FilmRows[i][g] >= 4 /\ FilmRows[i][y] < 2020}))

\* findEarliestMovieOver1_5Bn: the first row of the least year
findEarliestMovieOver1_5Bn(d) ==
    IF ~d.films THEN Str("Unknown")
    ELSE LET t == IndexOf(FilmHeaders, "Title")
             g == IndexOf(FilmHeaders, "Worldwide gross")
             y == IndexOf(FilmHeaders, "Year")
             over == {i \in DOMAIN FilmRows : FilmRows[i][g] >= 3}
             first == {i \in over : /\ \A j \in over : FilmRows[i][y] <= FilmRows[j][y]
                                    /\ \A j \in over : FilmRows[j][y] = FilmRows[i][y] => i <= j}
         IN IF over = {} THEN Str("Unknown") ELSE Str(FilmRows[Min(first)][t])

RECURSIVE Sum(_, _)
Sum(f, n) == IF n = 0 THEN 0 ELSE f[n] + Sum(f, n - 1)

\* calculateRankPeakCorrelation: numerator and squared denominator of the
\* Pearson coefficient
calculateRankPeakCorrelation(d) ==
    IF ~d.films THEN Num(0)
    ELSE LET r == IndexOf(FilmHeaders, "Rank")
             p == IndexOf(FilmHeaders, "Peak")
             n == Len(FilmRows)
             sumX == Sum([i \in DOMAIN FilmRows |-> FilmRows[i][r]], n)
             sumY == Sum([i \in DOMAIN FilmRows |-> FilmRows[i][p]], n)
             sumXY == Sum([i \in DOMAIN FilmRows |-> FilmRows[i][r] * FilmRows[i][p]], n)
             sumXX == Sum([i \in DOMAIN FilmRows |-> FilmRows[i][r] * FilmRows[i][r]], n)
             sumYY == Sum([i \in DOMAIN FilmRows |-> FilmRows[i][p] * FilmRows[i][p]], n)
             radicand == (n * sumXX - sumX * sumX) * (n * sumYY - sumY * sumY)
         IN IF n < 2 \/ radicand = 0 THEN Num(0)
            ELSE Ratio(n * sumXY - sumX * sumY, radicand)

\* prepareDataContext
prepareDataContext(d) ==
    CASE d.shape = "null" -> <<"No data provided">>
      [] d.shape = "scraped" /\ d.films ->
            <<"Content:", "List of highest-grossing films worldwide", NL,
              "Tables found:", "Rank", "Peak", "Title", "Worldwide gross", "Year", NL,
              "Avatar", "$2,923,706,026">>
      [] d.shape = "scraped" -> <<"Content:", "word">>
      [] OTHER -> <<"columns", "rows", "rowCount", "executionTime">>

\* createCountPrompt, ..., createGeneralPrompt: the words of each template
\* that generateMockResponse looks for, around the context and the question.
createPrompt(questionType, dataContext, question) ==
    (CASE questionType = "count" -> <<"Analyze the following data", "count">>
       [] questionType = "calculation" -> <<"Analyze the following data", "calculation", "correlation">>
       [] questionType = "correlation" -> <<"Analyze the following data", "correlation">>
       [] questionType = "comparison" -> <<"Analyze the following data", "comparison">>
       [] questionType = "date" -> <<"Analyze the following data", "date-related", "earliest/latest">>
       [] OTHER -> <<"Analyze the following data">>)
    \o <<NL, "Data:">> \o dataContext \o <<NL, "Question:">> \o question

\* /[-+]?\d*\.?\d+/ finds a number in the response
HasNumber(raw) == raw \in {"1", "5", "0.485782", "0.75", "42"}

\* parseResponse: the trim() of the reply throws when the reply is no string.
parseResponse(reply, questionType) ==
    IF reply.raw = "<null>" THEN TypeErrorThrown
    ELSE IF questionType \in {"count", "calculation", "correlation"} /\ HasNumber(reply.raw)
    THEN Answered(Literal(reply.raw))
    ELSE Answered(Str(reply.raw))

\* What the language model can send as the answer to a question.
AnswerContents == {Content("42"), Content("<prose>"), NullContent}

\* The hard-coded question patterns of analyzeSpecificQuestion.
DirectAnalysis(questionLower) ==
    IF /\ Includes(questionLower, "how many") /\ Includes(questionLower, "2 bn")
       /\ Includes(questionLower, "before 2020") THEN "count"
    ELSE IF Includes(questionLower, "earliest") /\ Includes(questionLower, "1.5 bn")
    THEN "earliest"
    ELSE IF /\ Includes(questionLower, "correlation") /\ Includes(questionLower, "rank")
            /\ Includes(questionLower, "peak") THEN "correlation"
    ELSE "none"

\* analyzeSpecificQuestion, given what generateResponse would resolve with.
\* question.toLowerCase() throws when the question has no text.
analyzeSpecificQuestion(d, question, reply) ==
    IF ~question.str THEN TypeErrorThrown
    ELSE LET direct == DirectAnalysis(LowerText(question.text)) IN
         CASE direct = "count" -> Answered(count2BnMoviesBefore2020(d))
           [] direct = "earliest" -> Answered(findEarliestMovieOver1_5Bn(d))
           [] direct = "correlation" -> Answered(calculateRankPeakCorrelation(d))
           [] OTHER -> parseResponse(reply, question.type)

\* Whether analyzeSpecificQuestion reaches generateResponse for the question.
AsksModel(question) ==
    question.str /\ DirectAnalysis(LowerText(question.text)) = "none"

\* The prompt analyzeQuestion sends for the question.
AnalysisPrompt(d, question) ==
    createPrompt(question.type, prepareDataContext(d), question.text)

\* What formatResults returns: an array of answers, or an object whose
\* i-th key holds the i-th item.
ArrayOf(rs) == [shape |-> "array", keys |-> <<>>, items |-> rs]
ObjectOf(ks, rs) == [shape |-> "object", keys |-> ks, items |-> rs]

\* The property name a question's text makes.
KeyOf(question) == IF question.str THEN question.text ELSE <<"undefined">>

\* The object of the forEach of formatResults: a key is created by the first
\* question that has it and keeps the answer of the last one.
KeyedObject(questions, rs) ==
    LET indices == [i \in DOMAIN questions |-> i]
        IsFirst(i) == \A j \in 1..(i - 1) : KeyOf(questions[j]) # KeyOf(questions[i])
        firsts == SelectSeq(indices, IsFirst)
        Last(i) == Max({j \in DOMAIN questions : KeyOf(questions[j]) = KeyOf(questions[i])})
    IN ObjectOf([k \in DOMAIN firsts |-> KeyOf(questions[firsts[k]])],
                [k \in DOMAIN firsts |-> rs[Last(firsts[k])]])

\* JavaScript truthiness of an answer
Truthy(a) ==
    CASE a.kind = "number" /\ a.radicand # 0 -> a.n # 0
      [] a.kind = "number" -> a.s # "0"
      [] a.kind = "string" -> a.s # ""
      [] OTHER -> TRUE

\* The fixed object of the court analysis task.
CourtObject(rs) ==
    ObjectOf(<< <<"Which high court disposed the most cases from 2019 - 2022?">>,
                <<"What's the regression slope of the date_of_registration - decision_date by year in the court=33_10?">>,
                <<"Plot the year and # of days of delay from the above question as a scatterplot with a regression line. Encode as a base64 data URI under 100,000 characters">> >>,
             << Str("Madras High Court"), Str("0.75"),
                IF rs # <<>> /\ Truthy(rs[1]) THEN rs[1]
                ELSE Str("data:image/png;base64,iVBORw0KG...") >>)

\* formatResults
formatResults(rs, t) ==
    IF \/ t.dataSource.url # Absent
          /\ Includes(<<t.dataSource.url>>, "List_of_highest-grossing_films")
       \/ t.context.present /\ Includes(t.context.text, "JSON array")
    THEN ArrayOf(rs)
    ELSE IF /\ t.context.present
            /\ Includes(t.context.text, "Indian high court judgement dataset")
    THEN CourtObject(rs)
    ELSE IF t.outputFormat = "json_array" THEN ArrayOf(rs)
    ELSE IF t.outputFormat = "json_object" THEN KeyedObject(t.questions, rs)
    ELSE ArrayOf(rs)

\* The AnalysisResult of executeAnalysis.
AnalysisResult(rs, t) ==
    [success |-> TRUE,
     data |-> formatResults(rs, t),
     metadata |-> [taskType |-> t.type,
                   dataSource |-> IF t.dataSource.type = Absent THEN "none"
                                  ELSE t.dataSource.type,
                   questionsAnswered |-> Len(t.questions),
                   processingSteps |-> Len(t.processing)]]

NoAnalysisResult ==
    [success |-> FALSE,
     data |-> ArrayOf(<<>>),
     metadata |-> [taskType |-> Absent, dataSource |-> Absent,
                   questionsAnswered |-> 0, processingSteps |-> 0]]

\* The sample task of the README (lines 94-104), by its key phrases.
SampleFilmsTask ==
    <<"https://en.wikipedia.org/wiki/List_of_highest-grossing_films", "JSON array", NL,
      "1.", "How many", "$2 bn", "before 2020", NL,
      "2.", "earliest", "$1.5 bn", NL,
      "3.", "correlation", "Rank", "and", "Peak", NL,
      "4.", "Draw", "scatterplot", "Rank", "and", "Peak", "dotted", "red",
            "regression", "line">>

\* Plans under execution: what parseTask returns for a few task texts when
\* it falls back, and for the replies of the language model that name a data
\* source, processing steps and up to MaxQuestions questions.
ExecTexts ==
    {<<"word">>,
     <<"https://example.org/data", NL, "1.", "how many", NL, "2.", "Plot">>,
     <<"SELECT COUNT(*) FROM t;", "word">>,
     <<"Indian high court judgement dataset", NL, "1.", "word">>,
     <<"https://en.wikipedia.org/wiki/List_of_highest-grossing_films", "JSON object",
       NL, "1.", "word", NL, "2.", "how many">>,
     <<"https://en.wikipedia.org/wiki/List_of_highest-grossing_films", NL,
       "1.", "How many", "$2 billion", "before 2020">>,
     SampleFilmsTask}

\* The last source has a query property that is no string.
ExecSources ==
    {NoSource,
     [type |-> "web", url |-> "https://example.org/data", query |-> Absent],
     [type |-> "database", url |-> Absent, query |-> "SELECT COUNT(*) FROM t;"],
     [type |-> "database", url |-> Absent, query |-> NotAString]}

\* An element of task.processing that is null.
NullStep == "<null>"

\* The elements of task.processing: a step is known by its type.
StepTypes == {"filter", "unknown", NullStep}

ExecItems ==
    {Question(<<"word">>, "text", "string", NoVisualization),
     Question(<<"how many", "word">>, "count", "number", NoVisualization),
     Question(<<"Plot", "word">>, "visualization", "base64_image", NoVisualization),
     UntitledQuestion("text")}

ExecReplies ==
    {[j |-> "object", type |-> "mixed", dataSource |-> src, processing |-> steps,
      qkind |-> "array", questions |-> qs, outputFormat |-> fmt, context |-> NoContext] :
        src \in ExecSources,
        steps \in UNION {[1..n -> StepTypes] : n \in 0..MaxSteps},
        qs \in UNION {[1..n -> ExecItems] : n \in 1..MaxQuestions},
        fmt \in {Absent, "json_object"}}

ExecTasks ==
    {fallbackTaskParsing(d) : d \in ExecTexts}
    \cup {validateAndEnhanceTask(t, <<"word">>).task : t \in ExecReplies}

ExecInit ==
    /\ epc = "start"
    /\ analysisTask \in ExecTasks
    /\ data = NoData
    /\ processedData = NoData
    /\ stepIndex = 0
    /\ qIndex = 0
    /\ results = <<>>
    /\ execResult = NoAnalysisResult
    /\ execError = Absent
    /\ answeredFor = <<>>
    /\ trace = <<>>
    /\ acquisitions = <<>>
    /\ delegated = {}

ExecIdle ==
    /\ epc = "idle"
    /\ analysisTask = NoTask
    /\ data = NoData
    /\ processedData = NoData
    /\ stepIndex = 0
    /\ qIndex = 0
    /\ results = <<>>
    /\ execResult = NoAnalysisResult
    /\ execError = Absent
    /\ answeredFor = <<>>
    /\ trace = <<>>
    /\ acquisitions = <<>>
    /\ delegated = {}

\* Step 1 ends with the dataset d: step 2 starts when there is data and the
\* plan has processing steps, else step 3 does.
Acquired(d) ==
    /\ data' = d
    /\ processedData' = d
    /\ epc' = IF d.shape # "null" /\ analysisTask.processing # <<>>
              THEN "processing" ELSE "answering"
    /\ UNCHANGED <<analysisTask, stepIndex, qIndex, results, execResult, execError,
                   answeredFor, delegated>>

\* Step 1 for a web source: await scrapeData.
ScrapeWeb ==
    /\ UNCHANGED nonExecVars
    /\ epc = "start"
    /\ analysisTask.dataSource.type = "web"
    /\ analysisTask.dataSource.url # Absent
    /\ \E d \in ScrapeResults(analysisTask.dataSource.url) :
          /\ Acquired(d)
          /\ acquisitions' = Append(acquisitions,
                Acquisition("scraper", analysisTask.dataSource.url,
                            ScrapeFailed(analysisTask.dataSource.url, d)))
    /\ trace' = Append(trace, "acquire")

\* Step 1 for a database source: await executeQuery.  When executeQuery
\* throws, the catch of executeAnalysis rethrows.
QueryDatabase ==
    /\ UNCHANGED nonExecVars
    /\ epc = "start"
    /\ analysisTask.dataSource.type = "database"
    /\ analysisTask.dataSource.query # Absent
    /\ IF QueryThrows(analysisTask.dataSource.query)
       THEN /\ epc' = "threw"
            /\ execError' = "TypeError"
            /\ UNCHANGED <<analysisTask, data, processedData, stepIndex, qIndex,
                           results, execResult, answeredFor, delegated>>
       ELSE Acquired(executeQuery(analysisTask.dataSource.query))
    /\ acquisitions' = Append(acquisitions,
          Acquisition("query", analysisTask.dataSource.query,
                      QueryThrows(analysisTask.dataSource.query)))
    /\ trace' = Append(trace, "acquire")

\* Step 1 for every other plan: data stays null.
NoAcquisition ==
    /\ UNCHANGED nonExecVars
    /\ epc = "start"
    /\ ~(analysisTask.dataSource.type = "web" /\ analysisTask.dataSource.url # Absent)
    /\ ~(analysisTask.dataSource.type = "database" /\ analysisTask.dataSource.query # Absent)
    /\ Acquired(NoData)
    /\ UNCHANGED <<trace, acquisitions>>

\* Step 2: processData awaits applyProcessingStep for the next step.  An
\* exception of the step leaves processData and goes through the catch of
\* executeAnalysis to the caller.
ProcessStep ==
    /\ UNCHANGED nonExecVars
    /\ epc = "processing"
    /\ stepIndex < Len(analysisTask.processing)
    /\ IF StepThrows(analysisTask.processing[stepIndex + 1])
       THEN /\ epc' = "threw"
            /\ execError' = "TypeError"
            /\ UNCHANGED <<processedData, stepIndex>>
       ELSE /\ processedData' = applyProcessingStep(processedData,
                                    analysisTask.processing[stepIndex + 1])
            /\ stepIndex' = stepIndex + 1
            /\ epc' = IF stepIndex + 1 = Len(analysisTask.processing)
                      THEN "answering" ELSE "processing"
            /\ UNCHANGED execError
    /\ trace' = Append(trace, "process")
    /\ UNCHANGED <<analysisTask, data, qIndex, results, execResult, answeredFor,
                   acquisitions, delegated>>

\* results.unshift(answer): the answer goes to the front.
PushFront(collected, x) == <<x>> \o collected

\* results.push(answer)
Push(collected, x) == Append(collected, x)

\* One turn of the loop of step 3 ends with `outcome`: the answer is pushed,
\* and after the last question step 4 formats and executeAnalysis returns;
\* an exception goes through the catch to the caller.
Collect(outcome) ==
    /\ trace' = Append(trace, "answer")
    /\ UNCHANGED <<analysisTask, data, processedData, stepIndex, acquisitions>>
    /\ IF outcome.threw
       THEN /\ epc' = "threw"
            /\ execError' = outcome.answer.s
            /\ UNCHANGED <<qIndex, results, execResult, answeredFor>>
       ELSE /\ results' = Push(results, outcome.answer)
            /\ answeredFor' = Push(answeredFor, qIndex + 1)
            /\ qIndex' = qIndex + 1
            /\ UNCHANGED execError
            /\ IF qIndex + 1 = Len(analysisTask.questions)
               THEN /\ epc' = "returned"
                    /\ execResult' = AnalysisResult(results', analysisTask)
               ELSE /\ epc' = "answering"
                    /\ UNCHANGED execResult

\* The question the loop is at.
CurrentQuestion == analysisTask.questions[qIndex + 1]

\* Step 3 for a visualization question: await createVisualization.
AnswerVisualization ==
    /\ UNCHANGED nonExecVars
    /\ epc = "answering"
    /\ CurrentQuestion.type = "visualization"
    /\ Collect(Answered(createVisualization(processedData, CurrentQuestion.visualization)))
    /\ UNCHANGED delegated

\* Step 3 for another question, when no reply of the language model is
\* used: the question has no text, a hard-coded pattern matches, or
\* generateResponse resolves with the mock response.
AnswerWithoutModel ==
    /\ UNCHANGED nonExecVars
    /\ epc = "answering"
    /\ CurrentQuestion.type # "visualization"
    /\ Collect(analyzeSpecificQuestion(
                  processedData, CurrentQuestion,
                  IF AsksModel(CurrentQuestion)
                  THEN generateMockResponse(AnalysisPrompt(processedData, CurrentQuestion))
                  ELSE NoContent))
    /\ delegated' = IF AsksModel(CurrentQuestion) THEN delegated \cup {qIndex + 1}
                    ELSE delegated

\* Step 3 for another question, when generateResponse resolves with the
\* content of the model's reply.
AnswerFromModel ==
    /\ UNCHANGED nonExecVars
    /\ epc = "answering"
    /\ CurrentQuestion.type # "visualization"
    /\ AsksModel(CurrentQuestion)
    /\ \E content \in AnswerContents :
          Collect(analyzeSpecificQuestion(processedData, CurrentQuestion, content))
    /\ delegated' = delegated \cup {qIndex + 1}

ExecNext ==
    \/ ScrapeWeb
    \/ QueryDatabase
    \/ NoAcquisition
    \/ ProcessStep
    \/ AnswerVisualization
    \/ AnswerWithoutModel
    \/ AnswerFromModel

\* processData on its own: most steps of a pipeline and most rows of a dataset.
MaxPipeline == 2
MaxRows == 2

\* The steps of a pipeline: the null element, a filter, a join and a type
\* the switch does not know.
PipelineStepTypes == {"filter", "join", "unknown", NullStep}

PipelineRows == {<<"Avatar", 2009>>, <<"Titanic", 1997>>}
PipelineItems == {[Title |-> r[1], Year |-> r[2]] : r \in PipelineRows}

\* Every shape processData tells apart: no data, an array of objects, a
\* table with and without the filtered field, and any other object.
PipelineDatasets ==
    {NoData, ParsedPage, MockMovieData, QueryResult(1)}
    \cup {TableData(<<"Title", "Year">>, rs) :
              rs \in UNION {[1..n -> PipelineRows] : n \in 0..MaxRows}}
    \cup {TableData(<<"Title", "Released">>, <<r>>) : r \in PipelineRows}
    \cup {ArrayData(items) :
              items \in UNION {[1..n -> PipelineItems] : n \in 0..MaxRows}}

\* processData(data, steps) has been called: processedData = data, and the
\* for loop is before its first step (or over, when there is none).
ProcessInit ==
    /\ \E steps \in UNION {[1..n -> PipelineStepTypes] : n \in 0..MaxPipeline} :
          /\ analysisTask = [fallbackTaskParsing(<<"word">>) EXCEPT !.processing = steps]
          /\ epc = IF steps = <<>> THEN "answering" ELSE "processing"
    /\ data \in PipelineDatasets
    /\ processedData = data
    /\ stepIndex = 0
    /\ qIndex = 0
    /\ results = <<>>
    /\ execResult = NoAnalysisResult
    /\ execError = Absent
    /\ answeredFor = <<>>
    /\ trace = <<>>
    /\ acquisitions = <<>>
    /\ delegated = {}

ProcessNext == ProcessStep

(***************************************************************************)
(* makeOpenAICall (src/pages/api/index.js)                                 *)
(***************************************************************************)

\* async function makeOpenAICall(messages, maxRetries = 2)
DefaultMaxRetries == 2

\* Largest array or object the analysis reply is drawn from.
MaxItems == 2

\* Most items the scraper is taken to return.
MaxScraped == 1

NoError == [status |-> 0, message |-> Absent]

\* An error of the OpenAI client: an HTTP status and the client's message,
\* which starts with the status; a connection error carries no status.
ApiError(st) ==
    [status |-> st,
     message |-> CASE st = 401 -> "401 Incorrect API key provided"
                   [] st = 403 -> "403 Forbidden"
                   [] st = 429 -> "429 Rate limit reached"
                   [] OTHER    -> "500 Internal server error"]
ConnectionError == [status |-> 0, message |-> "Connection error."]
TypeError == [status |-> 0, message |-> "Cannot read properties of null"]

AttemptErrors == {ApiError(401), ApiError(403), ApiError(429), ApiError(500),
                  ConnectionError}

\* error.message.includes('429')
Includes429(m) == m = "429 Rate limit reached"

\* An authentication check that lets 403 through.
IsAuthError401Only(e) == e.status = 401

\* The test of line 29: error.status === 401 || error.status === 403
IsAuthError(e) == e.status = 401 \/ e.status = 403

\* A backoff that grows by one second per retry.
LinearDelay(a) == a * 1000

\* Line 12: Math.pow(2, attempt) * 1000
BackoffDelay(a) == (2 ^ a) * 1000

\* Lines 2-9: enter makeOpenAICall on behalf of `who`.
BeginCall(who) ==
    /\ caller' = who
    /\ attempt' = 0
    /\ attemptsMade' = 0
    /\ delays' = <<>>
    /\ IF openaiReady
       THEN callState' = "create" /\ lastError' = NoError
       ELSE callState' = "threw"
            /\ lastError' = [status |-> 0, message |-> "OpenAI client not initialized"]

CallUnchanged == UNCHANGED <<caller, callState, attempt, attemptsMade, delays, lastError>>

\* Lines 11-15: the backoff wait before a retry.
Backoff ==
    /\ UNCHANGED nonLegacyVars
    /\ callState = "backoff"
    /\ delays' = Append(delays, BackoffDelay(attempt))
    /\ callState' = "create"
    /\ UNCHANGED <<lpc, method, openaiReady, hasUrl, scrapedData, caller,
                   maxRetries, attempt, attemptsMade, lastError, format,
                   result, chartData, failures, lresponse>>

\* Lines 17-23: the request succeeds and the response is returned.
CreateOk ==
    /\ UNCHANGED nonLegacyVars
    /\ callState = "create"
    /\ attemptsMade' = attemptsMade + 1
    /\ callState' = "returned"
    /\ UNCHANGED <<lpc, method, openaiReady, hasUrl, scrapedData, caller,
                   maxRetries, attempt, delays, lastError, format, result,
                   chartData, failures, lresponse>>

\* Lines 24-36: the request fails; rethrow, or go round the loop.
CreateFails ==
    /\ UNCHANGED nonLegacyVars
    /\ callState = "create"
    /\ attemptsMade' = attemptsMade + 1
    /\ \E e \in AttemptErrors :
        /\ lastError' = e
        /\ IF IsAuthError(e) \/ attempt = maxRetries
           THEN callState' = "threw" /\ attempt' = attempt
           ELSE callState' = "backoff" /\ attempt' = attempt + 1
    /\ UNCHANGED <<lpc, method, openaiReady, hasUrl, scrapedData, caller,
                   maxRetries, delays, format, result, chartData, failures,
                   lresponse>>

(***************************************************************************)
(* handler and processDataAnalysisTask (src/pages/api/index.js)            *)
(***************************************************************************)

ChartPlaceholder == [t |-> "string", v |-> "CHART_PLACEHOLDER"]
SlotValues == {ChartPlaceholder, [t |-> "string", v |-> "Titanic"],
               [t |-> "number", v |-> "1"]}
ChartSlot(c) == [t |-> "string", v |-> c]

\* The data URIs generateChart can return: a rendered chart, the SVG of
\* createPlaceholderChart, and the one-pixel PNG of line 490.
RenderedChart == "data:image/png;base64,<chart>"
PlaceholderChart == "data:image/svg+xml;base64,<Chart Generation Error>"
FallbackPng == "data:image/png;base64,iVBORw0KGgo"

Entry(k, x) == [key |-> k, value |-> x]
ObjectKeys == {"answer", "plot"}

\* key.toLowerCase().includes('plot') || ...('chart') || ...('base64')
ChartLikeKey(k) == k = "plot"

NoFormat == [kind |-> "none", outputFormat |-> Absent, needsVisualization |-> FALSE]
NullFormat == [kind |-> "null", outputFormat |-> Absent, needsVisualization |-> FALSE]
\* Line 169: the format used when the reply is not JSON.
FallbackFormat == [kind |-> "object", outputFormat |-> "array", needsVisualization |-> FALSE]

\* What JSON.parse of the format reply can give (line 167); "<throws>"
\* is a reply that is not JSON.
FormatReplies ==
    {"<throws>", "null"} \cup {"array+viz", "array", "object+viz", "object"}

ParseFormat(reply) ==
    IF reply = "<throws>" THEN FallbackFormat
    ELSE IF reply = "null" THEN NullFormat
    ELSE [kind |-> "object",
          outputFormat |-> IF reply \in {"array+viz", "array"} THEN "array" ELSE "object",
          needsVisualization |-> reply \in {"array+viz", "object+viz"}]

NoResultYet == [kind |-> "none", items |-> <<>>, error |-> Absent, details |-> Absent]
ArrayResult(xs) == [kind |-> "array", items |-> xs, error |-> Absent, details |-> Absent]
ObjectResult(es) == [kind |-> "object", items |-> es, error |-> Absent, details |-> Absent]
PrimitiveResult(k, x) == [kind |-> k, items |-> <<Entry(Absent, x)>>, error |-> Absent, details |-> Absent]
ErrorObject(err, det) == [kind |-> "error", items |-> <<>>, error |-> err, details |-> det]

SeqsUpTo(S, n) == UNION {[1..k -> S] : k \in 0..n}

\* What JSON.parse of the analysis reply can give (line 215): an array, an
\* object, a bare string, null, or no JSON at all.
AnalysisReplies ==
    {ArrayResult([i \in DOMAIN xs |-> Entry(Absent, xs[i])]) : xs \in SeqsUpTo(SlotValues, MaxItems)}
    \cup {ObjectResult(<<>>)}
    \cup {ObjectResult(<<Entry(k, x)>>) : k \in ObjectKeys, x \in SlotValues}
    \cup {ObjectResult(<<Entry("answer", x), Entry("plot", y)>>) : x \in SlotValues, y \in SlotValues}
    \cup {PrimitiveResult("string", ChartPlaceholder), PrimitiveResult("null", [t |-> "null", v |-> "null"])}
    \cup {ErrorObject("<not json>", Absent)}

\* Lines 220-225: the result when the analysis reply is not JSON.
FallbackResult(fmt) ==
    IF fmt.outputFormat = "array"
    THEN ArrayResult(<<Entry(Absent, [t |-> "string", v |-> "Error parsing response"]),
                       Entry(Absent, [t |-> "string", v |-> "Error"]),
                       Entry(Absent, [t |-> "number", v |-> "0"]),
                       Entry(Absent, ChartPlaceholder)>>)
    ELSE ErrorObject("Failed to parse analysis response", Absent)

\* A catch block that returns an empty object in place of an error object.
EmptyResult(e) == ObjectResult(<<>>)

\* Lines 268-277: the catch block of processDataAnalysisTask.
CatchResult(e) ==
    IF Includes429(e.message)
    THEN ErrorObject("Rate limit exceeded. Please try again in a moment.", Absent)
    ELSE ErrorObject("Failed to process analysis task", e.message)

\* Lines 238-243: the index of the first explicit placeholder, or 0.
FirstPlaceholder(xs) ==
    IF \E i \in DOMAIN xs : xs[i].value = ChartPlaceholder
    THEN CHOOSE i \in DOMAIN xs :
            /\ xs[i].value = ChartPlaceholder
            /\ \A j \in 1..(i - 1) : xs[j].value # ChartPlaceholder
    ELSE 0

\* Lines 236-258: put the chart into the result.
Substitute(res, c) ==
    IF res.kind = "array"
    THEN LET xs == res.items
             f == FirstPlaceholder(xs)
             ys == IF f = 0 THEN xs ELSE [xs EXCEPT ![f] = Entry(Absent, ChartSlot(c))]
             n == Len(ys)
         IN  IF n > 0 /\ ys[n].value.t = "string"
             THEN ArrayResult([ys EXCEPT ![n] = Entry(Absent, ChartSlot(c))])
             ELSE ArrayResult(ys)
    ELSE IF res.kind \in {"object", "error"}
    THEN IF res.kind = "error"
         THEN res
         ELSE ObjectResult([i \in DOMAIN res.items |->
                 IF res.items[i].value = ChartPlaceholder \/ ChartLikeKey(res.items[i].key)
                 THEN Entry(res.items[i].key, ChartSlot(c))
                 ELSE res.items[i]])
    ELSE res

NoLegacyResponse == [status |-> 0, body |-> NoResultYet]

LegacyInit ==
    /\ lpc = "handler"
    /\ method \in {"POST", "GET"}
    /\ openaiReady \in BOOLEAN
    /\ hasUrl \in BOOLEAN
    /\ scrapedData = 0
    /\ caller = "none"
    /\ callState = "idle"
    /\ maxRetries = DefaultMaxRetries
    /\ attempt = 0
    /\ attemptsMade = 0
    /\ delays = <<>>
    /\ lastError = NoError
    /\ format = NoFormat
    /\ result = NoResultYet
    /\ chartData = Absent
    /\ failures = {}
    /\ lresponse = NoLegacyResponse

LegacyIdle ==
    /\ lpc = "idle"
    /\ method = "POST"
    /\ openaiReady = TRUE
    /\ hasUrl = FALSE
    /\ scrapedData = 0
    /\ caller = "none"
    /\ callState = "idle"
    /\ maxRetries = DefaultMaxRetries
    /\ attempt = 0
    /\ attemptsMade = 0
    /\ delays = <<>>
    /\ lastError = NoError
    /\ format = NoFormat
    /\ result = NoResultYet
    /\ chartData = Absent
    /\ failures = {}
    /\ lresponse = NoLegacyResponse

\* handler, lines 56-74: the method and dependency checks.
HandlerStart ==
    /\ UNCHANGED nonLegacyVars
    /\ lpc = "handler"
    /\ IF method # "POST"
       THEN /\ lresponse' = [status |-> 405, body |-> ErrorObject("Method not allowed", Absent)]
            /\ lpc' = "responded"
       ELSE IF ~openaiReady
       THEN /\ lresponse' = [status |-> 500,
                             body |-> ErrorObject("OpenAI dependency not available",
                                                  "Please check OPENAI_API_KEY environment variable")]
            /\ lpc' = "responded"
       ELSE /\ lpc' = "scrape"
            /\ UNCHANGED lresponse
    /\ UNCHANGED <<method, openaiReady, hasUrl, scrapedData, maxRetries,
                   format, result, chartData, failures>>
    /\ CallUnchanged

\* processDataAnalysisTask, lines 129-163: scrape the URLs of the question
\* (performWebScraping returns [] on failure), then ask for the format.
Scrape ==
    /\ UNCHANGED nonLegacyVars
    /\ lpc = "scrape"
    /\ \E n \in 0..MaxScraped :
        /\ (~hasUrl) => (n = 0)
        /\ scrapedData' = n
    /\ BeginCall("format")
    /\ lpc' = "format"
    /\ UNCHANGED <<method, openaiReady, hasUrl, maxRetries, format, result,
                   chartData, failures, lresponse>>

\* Lines 165-208: parse the format reply, then ask for the analysis.
FormatReturned ==
    /\ UNCHANGED nonLegacyVars
    /\ lpc = "format"
    /\ callState = "returned"
    /\ \E reply \in FormatReplies : format' = ParseFormat(reply)
    /\ BeginCall("analysis")
    /\ lpc' = "analysis"
    /\ UNCHANGED <<method, openaiReady, hasUrl, scrapedData, maxRetries,
                   result, chartData, failures, lresponse>>

\* Why a call threw: an authentication error, or retries exhausted.
FailureOf(who, e) ==
    [call |-> who, kind |-> IF IsAuthError(e) THEN "auth" ELSE "exhausted"]

\* Lines 268-277: makeOpenAICall threw inside processDataAnalysisTask.
CallThrew ==
    /\ UNCHANGED nonLegacyVars
    /\ lpc \in {"format", "analysis"}
    /\ callState = "threw"
    /\ result' = CatchResult(lastError)
    /\ failures' = failures \cup {FailureOf(caller, lastError)}
    /\ lpc' = "returned"
    /\ UNCHANGED <<method, openaiReady, hasUrl, scrapedData, maxRetries,
                   format, chartData, lresponse>>
    /\ CallUnchanged

\* Lines 210-229: parse the analysis reply and decide about the chart.
\* A null format makes `format.outputFormat` or `format.needsVisualization`
\* throw a TypeError, which the catch block of line 268 turns into a result.
AnalysisReturned ==
    /\ UNCHANGED nonLegacyVars
    /\ lpc = "analysis"
    /\ callState = "returned"
    /\ \E reply \in AnalysisReplies :
        LET parsed == IF reply.kind = "error" THEN FallbackResult(format) ELSE reply
        IN  IF format.kind = "null"
            THEN /\ result' = CatchResult(TypeError)
                 /\ lpc' = "returned"
                 /\ CallUnchanged
            ELSE IF format.needsVisualization /\ scrapedData > 0
            THEN /\ result' = parsed
                 /\ lpc' = "chart"
                 /\ BeginCall("chart")
            ELSE /\ result' = parsed
                 /\ lpc' = "returned"
                 /\ CallUnchanged
    /\ UNCHANGED <<method, openaiReady, hasUrl, scrapedData, maxRetries,
                   format, chartData, failures, lresponse>>

\* generateChart, lines 458-492, and createChart: the chart configuration
\* is parsed and the chart rendered; every failure gives a fallback image.
ChartReturned ==
    /\ UNCHANGED nonLegacyVars
    /\ lpc = "chart"
    /\ callState = "returned"
    /\ \E c \in {RenderedChart, PlaceholderChart, FallbackPng} :
        /\ chartData' = c
        /\ result' = Substitute(result, c)
    /\ lpc' = "returned"
    /\ UNCHANGED <<method, openaiReady, hasUrl, scrapedData, maxRetries,
                   format, failures, lresponse>>
    /\ CallUnchanged

\* generateChart, lines 488-491: makeOpenAICall threw; the catch block
\* returns the one-pixel PNG.
ChartCallThrew ==
    /\ UNCHANGED nonLegacyVars
    /\ lpc = "chart"
    /\ callState = "threw"
    /\ chartData' = FallbackPng
    /\ result' = Substitute(result, FallbackPng)
    /\ failures' = failures \cup {FailureOf(caller, lastError)}
    /\ lpc' = "returned"
    /\ UNCHANGED <<method, openaiReady, hasUrl, scrapedData, maxRetries,
                   format, lresponse>>
    /\ CallUnchanged

\* handler, lines 86-97: res.status(200).json(result)
HandlerRespond ==
    /\ UNCHANGED nonLegacyVars
    /\ lpc = "returned"
    /\ lresponse' = [status |-> 200, body |-> result]
    /\ lpc' = "responded"
    /\ UNCHANGED <<method, openaiReady, hasUrl, scrapedData, maxRetries,
                   format, result, chartData, failures>>
    /\ CallUnchanged

LegacyNext ==
    \/ HandlerStart
    \/ Scrape
    \/ Backoff
    \/ CreateOk
    \/ CreateFails
    \/ FormatReturned
    \/ CallThrew
    \/ AnalysisReturned
    \/ ChartReturned
    \/ ChartCallThrew
    \/ HandlerRespond

\* makeOpenAICall on its own, for every maxRetries from 0 to MaxRetriesGiven.
\* The client exists: handler answers 500 before any call when it does not
\* (lines 62-67).
MaxRetriesGiven == 4

CallInit ==
    /\ lpc = "call"
    /\ method = "POST"
    /\ openaiReady = TRUE
    /\ hasUrl = FALSE
    /\ scrapedData = 0
    /\ caller = "none"
    /\ callState = "idle"
    /\ maxRetries \in 0..MaxRetriesGiven
    /\ attempt = 0
    /\ attemptsMade = 0
    /\ delays = <<>>
    /\ lastError = NoError
    /\ format = NoFormat
    /\ result = NoResultYet
    /\ chartData = Absent
    /\ failures = {}
    /\ lresponse = NoLegacyResponse

\* Lines 2-9: makeOpenAICall is entered.
EnterCall ==
    /\ UNCHANGED nonLegacyVars
    /\ lpc = "call"
    /\ callState = "idle"
    /\ BeginCall("direct")
    /\ UNCHANGED <<lpc, method, openaiReady, hasUrl, scrapedData, maxRetries,
                   format, result, chartData, failures, lresponse>>

CallNext ==
    \/ EnterCall
    \/ Backoff
    \/ CreateOk
    \/ CreateFails

(***************************************************************************)
(* Specifications                                                          *)
(***************************************************************************)

RouteIdle ==
    /\ pc = "idle"
    /\ contentType = "text/plain"
    /\ body = NoBody
    /\ task = Absent
    /\ timeout = 0
    /\ analysisPromise = NotCreated
    /\ timeoutPromise = NotCreated
    /\ racePromise = NotCreated
    /\ response = NoResponse
    /\ nResponses = 0
    /\ analyzeCalls = 0
    /\ hangs = FALSE
    /\ settled = <<>>

Init == RouteInit /\ LegacyIdle /\ ParseIdle /\ ExecIdle

Next == RouteNext

Spec == Init /\ [][Next]_vars

\* The event loop runs every ready callback: the armed timer fires and the
\* handler's continuations run.
LiveSpec ==
    /\ Spec
    /\ WF_vars(ParseBody)
    /\ WF_vars(Validate)
    /\ WF_vars(StartAnalysis)
    /\ WF_vars(TimerFire)
    /\ WF_vars(Respond)

\* The legacy endpoint: handler, processDataAnalysisTask and makeOpenAICall.
InitLegacy == LegacyInit /\ RouteIdle /\ ParseIdle /\ ExecIdle

SpecLegacy == InitLegacy /\ [][LegacyNext]_vars

InitParse == ParseInit /\ RouteIdle /\ LegacyIdle /\ ExecIdle
SpecParse == InitParse /\ [][ParseNext]_vars

InitExec == ExecInit /\ RouteIdle /\ LegacyIdle /\ ParseIdle
SpecExec == InitExec /\ [][ExecNext]_vars

\* processData alone, on every shape of dataset.
InitProcess == ProcessInit /\ RouteIdle /\ LegacyIdle /\ ParseIdle
SpecProcess == InitProcess /\ [][ProcessNext]_vars

\* makeOpenAICall alone; the timers fire and every request settles.
InitCall == CallInit /\ RouteIdle /\ ParseIdle /\ ExecIdle
SpecCall == InitCall /\ [][CallNext]_vars
LiveSpecCall == SpecCall /\ WF_vars(CallNext)

InitFallback == FallbackInit /\ RouteIdle /\ LegacyIdle /\ ExecIdle
SpecFallback == InitFallback /\ [][FallbackNext]_vars

(***************************************************************************)
(* Claims about the POST handler                                           *)
(***************************************************************************)

\* What the handler answers when the analysis settles the race.
AnalysisResponse(p) ==
    IF p.state = "fulfilled"
    THEN SuccessResponse(p.value)
    ELSE ErrorWithDetails(500, "Analysis failed", p.message)

\* C1: a validated request that reached the race gets exactly one response.
\* If the watchdog settled first the response is the 408 timeout failure
\* carrying the configured timeout, whatever the pipeline settles with
\* later; if the pipeline settled first the response is the pipeline's, and
\* a later firing of the watchdog does not change it.  Once returned, a
\* response never changes.
C1_RaceOneResponse ==
    /\ [](/\ nResponses <= 1
          /\ (pc = "responded") => (nResponses = 1)
          /\ (pc = "responded" /\ analyzeCalls = 1) =>
                /\ settled # <<>>
                /\ (Head(settled) = "timer") =>
                      (response = TimeoutResponse(timeout))
                /\ (Head(settled) = "analysis") =>
                      (response = AnalysisResponse(analysisPromise)))
    /\ [][(pc = "responded") => (response' = response /\ pc' = pc)]_vars

\* C1 witness: the watchdog fired first, the pipeline settled afterwards, and
\* the handler answered with the timeout failure.
C1_Witness ==
    /\ pc = "responded"
    /\ settled = <<"timer", "analysis">>
    /\ analysisPromise.state = "fulfilled"
    /\ response.status = 408
    /\ response.processingTime = ShortTimeout

\* C2: under the event loop's fairness, every request that reached the race
\* is eventually answered, and when a collaborator call never resolves the
\* answer is the timeout failure.
C2_AlwaysAnswered ==
    (pc = "awaiting") ~>
        (pc = "responded" /\ (hangs => response = TimeoutResponse(timeout)))

\* C2 witness: a request whose collaborator never resolves was answered 408.
C2_Witness ==
    /\ hangs
    /\ analysisPromise = Pending
    /\ pc = "responded"
    /\ response.status = 408

(***************************************************************************)
(* Claims about the legacy endpoint                                        *)
(***************************************************************************)

\* C8: a request in which the language model signalled an authentication
\* failure is answered with a failure whose kind (the `error` text of the
\* body) is its own: neither a success nor the generic failure that the
\* catch block of processDataAnalysisTask gives any other error.
C8_AuthDistinctKind ==
    (lpc = "responded" /\ \E f \in failures : f.kind = "auth") =>
        /\ lresponse.body.kind = "error"
        /\ lresponse.body.error # CatchResult(TypeError).error

\* C9: once an attempt of makeOpenAICall failed with status 401 or 403 the
\* call has thrown, and from then on no attempt is made and no backoff wait
\* is started.
C9_AuthNeverRetried ==
    /\ []((lastError.status \in {401, 403}) => (callState = "threw"))
    /\ [][(lastError.status \in {401, 403}) =>
            (attemptsMade' = attemptsMade /\ delays' = delays)]_vars

\* C9 witness: a call threw on a 403 at its second attempt, one retry unused.
C9_Witness ==
    /\ lastError.status = 403
    /\ callState = "threw"
    /\ attemptsMade = 2
    /\ attempt < maxRetries
    /\ Len(delays) = 1

\* C10: a request in which a language-model call exhausted its retries on a
\* transient error is not answered with the failure object of the catch
\* block: the request as a whole does not fail.
C10_ExhaustionKeepsRequest ==
    (lpc = "responded" /\ \E f \in failures : f.kind = "exhausted") =>
        lresponse.body \notin {CatchResult(e) : e \in AttemptErrors}

(***************************************************************************)
(* Claims about parseTask                                                  *)
(***************************************************************************)

\* C4: parseTask returns a plan for every task text and for every behaviour
\* of the language-model call (no reply, prose, JSON that is no plan object,
\* an object with malformed questions); it never throws to its caller.
C4_ParseTaskTotal ==
    /\ ppc # "threw"
    /\ (ppc = "returned") =>
          /\ plan.j \in {"object", "array"}
          /\ plan.qkind = "array"
          /\ plan.outputFormat # Absent
          /\ plan.context.present

\* A reply whose questions array holds null made validateAndEnhanceTask
\* throw, and parseTask returned the plan of the fallback.
C4_Witness ==
    /\ ppc = "returned"
    /\ parseResult.raw = "<document>"
    /\ \E i \in DOMAIN parseResult.doc.questions :
          parseResult.doc.questions[i].item = "null"
    /\ path = "fallback"
    /\ plan = fallbackTaskParsing(taskDescription)

\* No sub-question was found: the pattern matched nothing in the fallback,
\* or the reply of the assisted path had no questions.
NoSubQuestionFound ==
    \/ path = "fallback" /\ QuestionMatches(taskDescription, 1) = <<>>
    \/ path = "assisted" /\ JsonParse(parseResult).value.questions = <<>>

\* C5: every plan parseTask returns, from the assisted path or from the
\* fallback, has at least one question; when no sub-question is found the
\* whole task text is the single question.
C5_AtLeastOneQuestion ==
    (ppc = "returned") =>
        /\ Len(plan.questions) >= 1
        /\ NoSubQuestionFound =>
              /\ Len(plan.questions) = 1
              /\ plan.questions[1].str
              /\ plan.questions[1].text = taskDescription

\* The mock response (a number) sent parseTask to the fallback, whose pattern
\* matched nothing in a text that holds a list number.
C5_Witness ==
    /\ ppc = "returned"
    /\ parseResult.raw = "5"
    /\ path = "fallback"
    /\ \E i \in DOMAIN taskDescription : IsNumberTok(taskDescription[i])
    /\ Len(taskDescription) = MaxLen
    /\ QuestionMatches(taskDescription, 1) = <<>>
    /\ plan.questions = <<ForceVisualization(WholeTextQuestion(taskDescription))>>

\* C6: in every plan parseTask returns, each question whose type is
\* visualization has expectedFormat base64_image and a visualization config.
C6_VisualizationWellFormed ==
    (ppc = "returned") =>
        \A i \in DOMAIN plan.questions :
            (plan.questions[i].type = "visualization") =>
                /\ plan.questions[i].expectedFormat = "base64_image"
                /\ plan.questions[i].visualization.present

(***************************************************************************)
(* Claims about executeAnalysis                                            *)
(***************************************************************************)

StageRank(stage) ==
    CASE stage = "acquire" -> 1
      [] stage = "process" -> 2
      [] OTHER -> 3

Count(stage) == Cardinality({i \in DOMAIN trace : trace[i] = stage})

\* C3: executeAnalysis runs its stages in sequence: acquisition completes
\* before any processing step starts, all processing steps complete before
\* the first question is answered, and the questions are answered one at a
\* time in declared order, so the i-th collected answer belongs to the i-th
\* question.
C3_StagesInSequence ==
    /\ \A i \in DOMAIN trace : \A j \in DOMAIN trace :
          (i < j) => (StageRank(trace[i]) <= StageRank(trace[j]))
    /\ Count("acquire") <= 1
    /\ (Count("process") > 0) => (Count("acquire") = 1 /\ data.shape # "null")
    /\ (Count("answer") > 0 /\ data.shape # "null") =>
          (Count("process") = Len(analysisTask.processing))
    /\ Count("process") \in {stepIndex, stepIndex + 1}
    /\ Count("answer") \in {Len(results), Len(results) + 1}
    /\ (Count("process") > stepIndex \/ Count("answer") > Len(results)) => (epc = "threw")
    /\ Len(answeredFor) = Len(results)
    /\ \A i \in DOMAIN results :
          /\ answeredFor[i] = i
          /\ (results[i].kind = "image") = (analysisTask.questions[i].type = "visualization")

\* A plan with a source, a step and two questions of different kinds has run
\* to its end.
C3_Witness ==
    /\ epc = "returned"
    /\ trace = <<"acquire", "process", "answer", "answer">>
    /\ analysisTask.questions[1].type = "count"
    /\ analysisTask.questions[2].type = "visualization"
    /\ execResult.data.items = results

\* C7: a failure while answering one question (a transport failure of the
\* language model, an exception raised while preparing or parsing the
\* answer) does not abort the other questions: executeAnalysis still returns
\* one answer per declared question.
C7_FailureKeepsOtherAnswers ==
    /\ epc # "threw"
    /\ (epc = "returned") => (Len(results) = Len(analysisTask.questions))

\* A call of the acquisition stage failed.
AcquisitionFailed == \E i \in DOMAIN acquisitions : acquisitions[i].failed

\* C11: a failure of the scraper or of the query engine during acquisition
\* does not abort the pipeline: the dataset handed to the later stages is
\* none, and processing and answering still run.
C11_AcquisitionFailureGivesNone ==
    AcquisitionFailed =>
        /\ data = NoData
        /\ processedData = NoData
        /\ (Count("process") = 0 /\ Count("answer") = 0) => (epc # "threw")

\* A processing step was started and did not complete.
StepFailed == Count("process") > stepIndex

\* C12: a failure raised inside a processing step never aborts answering:
\* the pipeline continues and every declared question still gets an answer.
C12_StepFailureKeepsAnswering ==
    StepFailed => (epc # "threw")

\* C13: for every plan whose data source is a structured-query source, the
\* plan of the fallback for a SELECT ... FROM ... ; fragment included, the
\* acquisition stage calls the query engine exactly once with the query.
C13_QueryEngineCalledOnce ==
    (/\ epc # "start"
     /\ analysisTask.dataSource.type \in {"database", "duckdb"}
     /\ analysisTask.dataSource.query \notin {Absent, NotAString}) =>
        (acquisitions = <<Acquisition("query", analysisTask.dataSource.query, FALSE)>>)

\* C14: for every plan whose outputFormat is json_array with N questions,
\* formatResults of the N answers is the sequence of those N answers in
\* order, whatever the data source and the context are.
C14_ArrayKeepsAnswers ==
    (epc = "returned" /\ analysisTask.outputFormat = "json_array") =>
        /\ execResult.data.shape = "array"
        /\ execResult.data.items = results
        /\ Len(execResult.data.items) = Len(analysisTask.questions)

\* C15: for every plan whose outputFormat is json_object, formatResults is
\* an object that holds, under each question's text, the answer collected at
\* the same index, and under a text that several questions share the answer
\* of the last of them.
C15_ObjectKeyedByQuestion ==
    (epc = "returned" /\ analysisTask.outputFormat = "json_object") =>
        /\ execResult.data.shape = "object"
        /\ Len(execResult.data.keys) = Len(execResult.data.items)
        /\ \A k \in DOMAIN execResult.data.keys :
              \E i \in DOMAIN analysisTask.questions :
                  execResult.data.keys[k] = KeyOf(analysisTask.questions[i])
        /\ \A i \in DOMAIN analysisTask.questions :
              \E k \in DOMAIN execResult.data.keys :
                  /\ execResult.data.keys[k] = KeyOf(analysisTask.questions[i])
                  /\ \/ execResult.data.items[k] = results[i]
                     \/ \E j \in DOMAIN analysisTask.questions :
                           /\ j > i
                           /\ KeyOf(analysisTask.questions[j]) = KeyOf(analysisTask.questions[i])
                  /\ \E j \in DOMAIN analysisTask.questions :
                        /\ KeyOf(analysisTask.questions[j]) = KeyOf(analysisTask.questions[i])
                        /\ execResult.data.items[k] = results[j]
                        /\ \A l \in DOMAIN analysisTask.questions :
                              (KeyOf(analysisTask.questions[l]) = KeyOf(analysisTask.questions[i]))
                                 => (l <= j)

(***************************************************************************)
(* Claims about the heuristic fallback                                     *)
(***************************************************************************)

\* The task text has no URL, no query and no list number.
PlainText(text) ==
    \A i \in DOMAIN text :
        ~IsUrlTok(text[i]) /\ ~IsQueryTok(text[i]) /\ ~IsNumberTok(text[i])

\* C16 as stated: every task text that contains "JSON object" yields
\* json_object, and every task text that does not contain it yields
\* json_array.
C16_ObjectWheneverNamed ==
    (ppc = "returned") =>
        /\ Includes(taskDescription, "JSON object") => (plan.outputFormat = "json_object")
        /\ ~Includes(taskDescription, "JSON object") => (plan.outputFormat = "json_array")

\* C16, amended: every task text that contains "JSON object" and does not
\* contain "JSON array" yields json_object, and every other task text yields
\* json_array.
C16_ObjectUnlessArrayNamed ==
    (ppc = "returned") =>
        IF /\ Includes(taskDescription, "JSON object")
           /\ ~Includes(taskDescription, "JSON array")
        THEN plan.outputFormat = "json_object"
        ELSE plan.outputFormat = "json_array"

C16_Witness ==
    /\ ppc = "returned"
    /\ Includes(taskDescription, "JSON object")
    /\ Includes(taskDescription, "JSON array")
    /\ plan.outputFormat = "json_array"

\* C17: for every task text without URL, query and numbered list, the
\* fallback returns a plan with exactly one question, whose text is the
\* trimmed input and whose type is text.
C17_OneTrimmedTextQuestion ==
    (ppc = "returned" /\ PlainText(taskDescription)) =>
        /\ Len(plan.questions) = 1
        /\ plan.questions[1].text = Trim(taskDescription)
        /\ plan.questions[1].type = "text"

\* C18: for the task text "How many items in [1,2,3,4,5]?" the fallback
\* yields exactly one question, and the type of that question is count.
C18_HowManyIsCount ==
    (ppc = "returned" /\ taskDescription = <<"How many items in [1,2,3,4,5]?">>) =>
        /\ Len(plan.questions) = 1
        /\ plan.questions[1].type = "count"

(***************************************************************************)
(* Claims about the failure responses of the POST handler                  *)
(***************************************************************************)

\* C19: every failure response of the POST handler is a JSON object that
\* has both an error field and a details field.
C19_FailureHasErrorAndDetails ==
    (pc = "responded" /\ response.status # 200) =>
        ({"error", "details"} \subseteq response.fields)

\* The request has no body that parses to an object with a non-empty task
\* string and, if a timeout is given, a numeric one.
Malformed(b) ==
    \/ b.kind # "object"
    \/ b.task \in {NotAString, ""}
    \/ b.timeout.given = "not a number"

\* C20: a request whose body cannot be parsed or does not validate is
\* answered with a failure at once; analyzeTask and the timeout watchdog are
\* never started for it.
C20_MalformedNeverStartsAnalysis ==
    Malformed(body) =>
        /\ pc \in {"received", "parsed", "responded"}
        /\ analyzeCalls = 0
        /\ analysisPromise = NotCreated
        /\ timeoutPromise = NotCreated
        /\ racePromise = NotCreated
        /\ (pc = "responded") =>
              /\ response.status = 400
              /\ "error" \in response.fields
              /\ nResponses = 1

C20_Witness ==
    /\ pc = "responded"
    /\ body.kind = "object"
    /\ body.task = ""
    /\ response.status = 400
    /\ analyzeCalls = 0
    /\ timeoutPromise = NotCreated

(***************************************************************************)
(* Claims about chart substitution in the legacy endpoint                  *)
(***************************************************************************)

\* The result has a slot that holds the token CHART_PLACEHOLDER.
HoldsPlaceholder(res) ==
    \E i \in DOMAIN res.items : res.items[i].value = ChartPlaceholder

\* C21: no result that processDataAnalysisTask returns holds the token
\* CHART_PLACEHOLDER, whatever the language model replied, whether or not a
\* visualization is needed and whether or not data was scraped; so no
\* response body holds it either.
C21_NoPlaceholderReturned ==
    /\ (lpc \in {"returned", "responded"}) => ~HoldsPlaceholder(result)
    /\ (lpc = "responded") => ~HoldsPlaceholder(lresponse.body)

\* C22: when chart substitution runs on an array that holds an explicit
\* CHART_PLACEHOLDER, a placeholder slot gets the chart and every slot that
\* held no placeholder stays as it was; the last element is replaced only
\* when the array held no explicit placeholder.
C22_OnlyPlaceholderSlotChanges ==
    [][(/\ lpc = "chart"
        /\ lpc' = "returned"
        /\ result.kind = "array"
        /\ HoldsPlaceholder(result)) =>
            /\ result'.kind = "array"
            /\ Len(result'.items) = Len(result.items)
            /\ \E i \in DOMAIN result.items :
                  /\ result.items[i].value = ChartPlaceholder
                  /\ result'.items[i].value = ChartSlot(chartData')
            /\ \A i \in DOMAIN result.items :
                  (result.items[i].value # ChartPlaceholder) =>
                      (result'.items[i] = result.items[i])]_vars

(***************************************************************************)
(* Claims about the retries of makeOpenAICall                              *)
(***************************************************************************)

\* C27: makeOpenAICall with maxRetries >= 0 makes at most maxRetries + 1
\* attempts, waits nothing before the first attempt and 2^k seconds before
\* the k-th retry (strictly increasing waits), and always ends: it returns
\* the response of the first attempt that succeeded, or throws the error of
\* the last attempt made.
C27_BoundedBackoffTerminates ==
    /\ [](attemptsMade <= maxRetries + 1)
    /\ [](Len(delays) <= attemptsMade /\ attemptsMade <= Len(delays) + 1)
    /\ [](\A k \in DOMAIN delays :
              /\ delays[k] = (2 ^ k) * 1000
              /\ (k > 1) => (delays[k] > delays[k - 1]))
    /\ []((callState = "returned") =>
              (attemptsMade = Len(delays) + 1 /\ attemptsMade = attempt + 1))
    /\ []((callState = "threw") =>
              /\ attemptsMade = Len(delays) + 1
              /\ lastError \in AttemptErrors
              /\ (lastError.status \in {401, 403} \/ attemptsMade = maxRetries + 1))
    /\ <>(callState \in {"returned", "threw"})

\* The default call used up its three attempts after waits of 2 s and 4 s.
C27_Witness ==
    /\ lpc = "call"
    /\ maxRetries = DefaultMaxRetries
    /\ callState = "threw"
    /\ attemptsMade = 3
    /\ delays = <<2000, 4000>>

(***************************************************************************)
(* Claims about failures in processDataAnalysisTask                        *)
(***************************************************************************)

\* The error texts of the catch block of processDataAnalysisTask.
PipelineErrorTexts ==
    {"Rate limit exceeded. Please try again in a moment.",
     "Failed to process analysis task"}

HardCodedPattern(question) ==
    LET t == LowerText(question.text) IN
    \/ /\ Includes(t, "how many")
       /\ Includes(t, "2 bn") \/ Includes(t, "$2")
       /\ Includes(t, "before 2020")
    \/ Includes(t, "earliest") /\ Includes(t, "1.5 bn")
    \/ Includes(t, "correlation") /\ Includes(t, "rank") /\ Includes(t, "peak")

\* C23: every non-visualization question whose lower-cased text matches one
\* of the hard-coded patterns ('how many' with '2 bn' or '$2' and 'before
\* 2020'; 'earliest' with '1.5 bn'; 'correlation' with 'rank' and 'peak') is
\* answered by direct computation: it is never handed to the language model.
C23_PatternsNeverDelegated ==
    \A i \in DOMAIN analysisTask.questions :
        (/\ analysisTask.questions[i].str
         /\ analysisTask.questions[i].type # "visualization"
         /\ HardCodedPattern(analysisTask.questions[i])) => (i \notin delegated)

\* executeAnalysis returned for the sample task about the highest-grossing
\* films, run on the scraper's built-in film table.
SampleFilmsAnswered ==
    /\ epc = "returned"
    /\ analysisTask.context = Context(SampleFilmsTask)
    /\ Len(analysisTask.questions) = 4
    /\ data = MockMovieData
    /\ execResult.data.shape = "array"
    /\ Len(execResult.data.items) = 4

\* C24: for the sample films task on the built-in film table, the first
\* answer, the count of films that grossed at least 2 bn dollars and were
\* released before 2020, is 1.
C24_FirstAnswerIsOne ==
    SampleFilmsAnswered =>
        /\ execResult.data.items[1].kind = "number"
        /\ execResult.data.items[1].radicand = 1
        /\ execResult.data.items[1].n = 1

\* C25: for the sample films task on the built-in film table, the third
\* answer, the Pearson correlation of Rank and Peak, is a number within
\* 0.001 of 0.485782.  The number is n / sqrt(radicand), and the interval
\* is taken a little wider: 0.235 <= n^2 / radicand <= 0.237.
C25_CorrelationNearExpected ==
    SampleFilmsAnswered =>
        LET a == execResult.data.items[3] IN
        /\ a.kind = "number"
        /\ \/ a.radicand = 0 /\ a.s = "0.485782"
           \/ /\ a.radicand > 0
              /\ a.n > 0
              /\ 235 * a.radicand <= 1000 * a.n * a.n
              /\ 1000 * a.n * a.n <= 237 * a.radicand

\* C26: for the sample films task, the fourth answer is the image of a
\* scatter plot of the scraped Rank and Peak values with a dotted red
\* regression line: the axis names taken from the question are columns of
\* the table, so at least one point and the line are drawn, not the empty
\* chart that says 'No data available'.
C26_ScatterPlotHasPoints ==
    SampleFilmsAnswered =>
        /\ analysisTask.questions[4].visualization.type = "scatter"
        /\ analysisTask.questions[4].visualization.regressionStyle = "dotted"
        /\ analysisTask.questions[4].visualization.regressionColor = "red"
        /\ IndexOf(FilmHeaders, analysisTask.questions[4].visualization.xAxis) # 0
        /\ IndexOf(FilmHeaders, analysisTask.questions[4].visualization.yAxis) # 0
        /\ execResult.data.items[4].kind = "image"
        /\ execResult.data.items[4].n >= 1
        /\ execResult.data.items[4].s = "regression"

\* The class of a lower-cased question text when the keyword lists are
\* tried in the fixed order.
FirstClass(t) ==
    CASE IncludesAny(t, {"how many", "count", "number of"}) -> "count"
      [] IncludesAny(t, {"correlation", "relationship"}) -> "correlation"
      [] IncludesAny(t, {"plot", "chart", "graph", "visualization"}) -> "visualization"
      [] IncludesAny(t, {"calculate", "compute", "average", "sum"}) -> "calculation"
      [] IncludesAny(t, {"compare", "versus", "vs"}) -> "comparison"
      [] IncludesAny(t, {"date", "time", "when", "earliest", "latest"}) -> "date"
      [] OTHER -> "text"

\* The questions of the plan are those of a numbered list.
NumberedPlan == ppc = "returned" /\ QuestionMatches(taskDescription, 1) # <<>>

\* Every question has the first class in the fixed order, unless it holds
\* one of the keywords `forced`, which make it a visualization.
TypedInOrder(forced) ==
    NumberedPlan =>
        \A i \in DOMAIN plan.questions :
            LET t == LowerText(plan.questions[i].text) IN
            plan.questions[i].type =
                IF IncludesAny(t, forced) THEN "visualization" ELSE FirstClass(t)

\* C28 as stated: in the fallback, the type of each numbered question is the
\* first matching class in the order count, correlation, visualization,
\* calculation, comparison, date, else text, except that a question holding
\* 'plot', 'chart', 'graph' or 'visualization' is forced to visualization;
\* a question with none of the listed keywords is typed text.
C28_TypedByFirstClass ==
    TypedInOrder({"plot", "chart", "graph", "visualization"})

\* C28, amended: the same, with 'draw' among the keywords that force a
\* question to visualization.
C28_TypedByFirstClassOrDraw ==
    TypedInOrder({"plot", "chart", "graph", "visualization", "draw"})

\* A numbered question that says only 'Draw' is a visualization.
C28_Witness ==
    /\ NumberedPlan
    /\ \E i \in DOMAIN plan.questions :
          /\ plan.questions[i].text = <<"Draw">>
          /\ plan.questions[i].type = "visualization"

(***************************************************************************)
(* Claims about the processing steps                                       *)
(***************************************************************************)

\* The step the for loop of processData is about to apply, if any.
AtStepOfType(types) ==
    /\ epc = "processing"
    /\ stepIndex < Len(analysisTask.processing)
    /\ analysisTask.processing[stepIndex + 1] \in types

\* C29: a processing step whose type is unknown, and every join step, hands
\* back exactly the dataset it received and does not fail, whatever the
\* shape of the dataset (no data included), so that the steps after it work
\* on the unchanged dataset: a pipeline that so far had only such steps
\* still holds the dataset processData was called with.
C29_UnknownAndJoinPassThrough ==
    /\ [][AtStepOfType({"join", "unknown"}) =>
              /\ processedData' = processedData
              /\ stepIndex' = stepIndex + 1
              /\ epc' # "threw"
              /\ execError' = execError]_vars
    /\ []((\A i \in 1..stepIndex :
               analysisTask.processing[i] \in {"join", "unknown"})
             => processedData = data)

\* A join and an unknown step have run on a table with rows, and a filter
\* after a join has removed the 1997 film from the table it was given.
C29_Witness ==
    /\ stepIndex = 2
    /\ analysisTask.processing[1] = "join"
    /\ analysisTask.processing[2] = "filter"
    /\ data = TableData(<<"Title", "Year">>, <<<<"Avatar", 2009>>, <<"Titanic", 1997>>>>)
    /\ processedData = TableData(<<"Title", "Year">>, <<<<"Avatar", 2009>>>>)
    /\ epc = "answering"

====
